---- MODULE Spec2Model ----
(***************************************************************************)
(* Per-instance component visibility of RhinoAssemblyOutliner.native:      *)
(* the store CVisibilityData, its per-frame copy CVisibilitySnapshot, the  *)
(* display conduit CVisibilityConduit and the document text codec.         *)
(*                                                                         *)
(* A std::string is a sequence of one-character strings, so  "1.0"  is     *)
(* <<"1", ".", "0">>.  Positions are 0-based as in the C++ code and NPOS   *)
(* stands for std::string::npos.                                           *)
(***************************************************************************)
EXTENDS Integers, Sequences, FiniteSets, TLC

VARIABLES
    m_data,          \* CVisibilityData::m_data      : id -> (path -> state)
    m_prefixes,      \* CVisibilityData::m_prefixes  : id -> set of paths
    m_snapshot,      \* CVisibilityConduit::m_snapshot (CVisibilitySnapshot::m_data)
    m_snapshotValid, \* CVisibilityConduit::m_snapshotValid
    m_bDrawObject,   \* m_pChannelAttrs->m_bDrawObject as the last callback left it
    emitted,         \* the renderer / bounding-box calls of the last callback, in order
    lastChannel,     \* the channel of the last conduit callback ("none" at frame start)
    lastObject,      \* the object of the last SC_DRAWOBJECT callback
    selected,        \* the instance objects the document reports as selected
    frameCaptures,   \* TakeSnapshot calls of the conduit since the last SC_POSTDRAWOBJECTS
    frameUse,        \* "used" once a pass consulted the frame's capture, "split" once
                     \* a later capture of the same frame replaced it by a different one
    lastPassSame,    \* the last pass consulted the capture of the frame's first pass
    mutatedInFrame,  \* a store mutation completed since the current frame began
    preDrawn,        \* the host delivered SC_PREDRAWOBJECTS in the current frame
    lockOwner,       \* the thread inside the CRITICAL_SECTION m_cs ("none" when free)
    pcMut,           \* position of the mutator thread inside a store method
    mutOp,           \* the store method (and arguments) the mutator thread is running
    pcRen,           \* position of the render thread inside TakeSnapshot
    renSnap,         \* the local  snap  the render thread is building in TakeSnapshot
    docText,         \* the document text string SaveVisibilityState last handed to the host
    lastCall,        \* the call that completed last, with its arguments and result
    userData,        \* the HiddenPaths of the CComponentVisibilityData attached to each
                     \* instance object (no entry: no user data on the object)
    g_initialized,   \* NativeInit ran and NativeCleanup has not: g_pVisData is set
    hydration        \* the store calls the running hydration has still to make

vars == << m_data, m_prefixes, m_snapshot, m_snapshotValid, m_bDrawObject, emitted,
           lastChannel, lastObject, selected, frameCaptures, frameUse,
           lastPassSame, mutatedInFrame, preDrawn, lockOwner, pcMut, mutOp, pcRen,
           renSnap, docText, lastCall, userData, g_initialized, hydration >>

storeVars   == << m_data, m_prefixes >>
conduitVars == << m_snapshot, m_snapshotValid, m_bDrawObject, emitted, lastChannel,
                  lastObject, frameCaptures, frameUse, lastPassSame >>
threadVars  == << lockOwner, pcMut, mutOp, pcRen, renSnap >>
docVars     == << docText, lastCall, userData, g_initialized, hydration >>
moduleVars  == << userData, g_initialized, hydration >>

-----------------------------------------------------------------------------
(* ComponentState, VisibilityData.h                                        *)

CS_VISIBLE == 0
CS_HIDDEN == 1
CS_SUPPRESSED == 2
CS_TRANSPARENT == 3

ComponentStates == CS_VISIBLE .. CS_TRANSPARENT

-----------------------------------------------------------------------------
(* std::string and std::unordered_map primitives                           *)

NPOS == -1

\* str.find(ch, pos): the first position >= pos holding ch, or npos
Find(str, ch, pos) ==
    LET hits == { i \in pos .. (Len(str) - 1) : str[i + 1] = ch }
    IN  IF hits = {} THEN NPOS ELSE CHOOSE i \in hits : \A j \in hits : i <= j

\* str.rfind(ch): the last position holding ch, or npos
RFind(str, ch) ==
    LET hits == { i \in 0 .. (Len(str) - 1) : str[i + 1] = ch }
    IN  IF hits = {} THEN NPOS ELSE CHOOSE i \in hits : \A j \in hits : i >= j

\* str.substr(pos, count) for pos <= size; count is clipped to the end of str
Substr(str, pos, count) ==
    LET last == IF pos + count > Len(str) THEN Len(str) ELSE pos + count
    IN  SubSeq(str, pos + 1, last)

EmptyMap == [k \in {} |-> 0]

MapErase(f, k) == [x \in (DOMAIN f) \ {k} |-> f[x]]

MapPut(f, k, v) == [x \in (DOMAIN f) \cup {k} |-> IF x = k THEN v ELSE f[x]]

\* std::to_string(int) for a non-negative int
DigitChar(d) == <<"0", "1", "2", "3", "4", "5", "6", "7", "8", "9">>[d + 1]

RECURSIVE IntToString(_)
IntToString(n) ==
    IF n < 10 THEN << DigitChar(n) >>
    ELSE IntToString(n \div 10) \o << DigitChar(n % 10) >>

-----------------------------------------------------------------------------
(* CVisibilityData (the store). Every method runs under CAutoLock lock(m_cs) *)
(* and is one atomic step of Spec; SpecLock below splits the methods at the *)
(* lock and at each container update.                                      *)

\* the while loop of RebuildPrefixes: every parent prefix of one path
RECURSIVE ParentPrefixes(_)
ParentPrefixes(path) ==
    LET pos == RFind(path, ".")
    IN  IF pos = NPOS THEN {}
        ELSE LET prefix == Substr(path, 0, pos)
             IN  {prefix} \cup ParentPrefixes(prefix)

\* Mutant: only the path itself is inserted, the parent loop is lost
RebuildPrefixes_NoParents(data, prefixes, instanceId) ==
    IF instanceId \notin DOMAIN data \/ DOMAIN data[instanceId] = {}
    THEN MapErase(prefixes, instanceId)
    ELSE MapPut(prefixes, instanceId, DOMAIN data[instanceId])

\* Mutant: the prefix set of an instance that lost its last state is kept
RebuildPrefixes_KeepStale(data, prefixes, instanceId) ==
    IF instanceId \notin DOMAIN data \/ DOMAIN data[instanceId] = {}
    THEN prefixes
    ELSE MapPut(prefixes, instanceId,
                UNION { {path} \cup ParentPrefixes(path) : path \in DOMAIN data[instanceId] })

\* Mutant: only the parent prefixes are inserted, the path itself is not
RebuildPrefixes_ParentsOnly(data, prefixes, instanceId) ==
    IF instanceId \notin DOMAIN data \/ DOMAIN data[instanceId] = {}
    THEN MapErase(prefixes, instanceId)
    ELSE MapPut(prefixes, instanceId,
                UNION { ParentPrefixes(path) : path \in DOMAIN data[instanceId] })

\* CVisibilityData::RebuildPrefixes: the new m_prefixes
RebuildPrefixes(data, prefixes, instanceId) ==
    IF instanceId \notin DOMAIN data \/ DOMAIN data[instanceId] = {}
    THEN MapErase(prefixes, instanceId)
    ELSE MapPut(prefixes, instanceId,
                UNION { {path} \cup ParentPrefixes(path) : path \in DOMAIN data[instanceId] })

\* Mutant: Visible is stored like any other state, nothing is erased
SetStateData_StoreVisible(data, instanceId, path, state) ==
    LET inner == IF instanceId \in DOMAIN data THEN data[instanceId] ELSE EmptyMap
    IN  MapPut(data, instanceId, MapPut(inner, path, state))

\* Mutant: on Visible the instance is dropped when its map holds one entry,
\* whichever entry that is
SetStateData_EraseBySize(data, instanceId, path, state) ==
    IF state = CS_VISIBLE
    THEN IF instanceId \in DOMAIN data
         THEN IF Cardinality(DOMAIN data[instanceId]) = 1
              THEN MapErase(data, instanceId)
              ELSE MapPut(data, instanceId, MapErase(data[instanceId], path))
         ELSE data
    ELSE LET inner == IF instanceId \in DOMAIN data THEN data[instanceId] ELSE EmptyMap
         IN  MapPut(data, instanceId, MapPut(inner, path, state))

\* Mutant: on Visible the entry is erased and an emptied map stays in m_data
SetStateData_KeepEmpty(data, instanceId, path, state) ==
    IF state = CS_VISIBLE
    THEN IF instanceId \in DOMAIN data
         THEN MapPut(data, instanceId, MapErase(data[instanceId], path))
         ELSE data
    ELSE LET inner == IF instanceId \in DOMAIN data THEN data[instanceId] ELSE EmptyMap
         IN  MapPut(data, instanceId, MapPut(inner, path, state))

\* Mutant: on Visible the whole map of the instance is dropped
SetStateData_EraseInstance(data, instanceId, path, state) ==
    IF state = CS_VISIBLE
    THEN MapErase(data, instanceId)
    ELSE LET inner == IF instanceId \in DOMAIN data THEN data[instanceId] ELSE EmptyMap
         IN  MapPut(data, instanceId, MapPut(inner, path, state))

\* the m_data half of SetState
SetStateData(data, instanceId, path, state) ==
    IF state = CS_VISIBLE
    THEN IF instanceId \in DOMAIN data
         THEN LET erased == MapErase(data[instanceId], path)
              IN  IF DOMAIN erased = {}
                  THEN MapErase(data, instanceId)
                  ELSE MapPut(data, instanceId, erased)
         ELSE data
    ELSE LET inner == IF instanceId \in DOMAIN data THEN data[instanceId] ELSE EmptyMap
         IN  MapPut(data, instanceId, MapPut(inner, path, state))

\* CVisibilityData::SetState on the pair (m_data, m_prefixes)
SetState(store, instanceId, path, state) ==
    LET data == SetStateData(store.data, instanceId, path, state)
    IN  [data |-> data, prefixes |-> RebuildPrefixes(data, store.prefixes, instanceId)]

\* CVisibilityData::GetState
GetState(data, instanceId, path) ==
    IF instanceId \notin DOMAIN data THEN CS_VISIBLE
    ELSE IF path \notin DOMAIN data[instanceId] THEN CS_VISIBLE
    ELSE data[instanceId][path]

\* Mutant: the prefix set of the instance is not erased
ResetInstance_KeepPrefixes(store, instanceId) ==
    [data |-> MapErase(store.data, instanceId), prefixes |-> store.prefixes]

\* CVisibilityData::ResetInstance
ResetInstance(store, instanceId) ==
    [data |-> MapErase(store.data, instanceId),
     prefixes |-> MapErase(store.prefixes, instanceId)]

\* Mutant: only Hidden and Suppressed entries make an instance managed
IsManaged_HiddenOnly(data, instanceId) ==
    /\ instanceId \in DOMAIN data
    /\ \E path \in DOMAIN data[instanceId] :
          data[instanceId][path] \in {CS_HIDDEN, CS_SUPPRESSED}

\* CVisibilityData::IsManaged
IsManaged(data, instanceId) ==
    instanceId \in DOMAIN data /\ DOMAIN data[instanceId] # {}

\* CVisibilityData::IsComponentHidden
IsComponentHidden(data, instanceId, path) ==
    IF instanceId \notin DOMAIN data THEN FALSE
    ELSE IF path \notin DOMAIN data[instanceId] THEN FALSE
    ELSE data[instanceId][path] = CS_HIDDEN \/ data[instanceId][path] = CS_SUPPRESSED

\* CVisibilityData::HasHiddenDescendants
HasHiddenDescendants(prefixes, instanceId, pathPrefix) ==
    IF instanceId \notin DOMAIN prefixes THEN FALSE
    ELSE pathPrefix \in prefixes[instanceId]

\* CVisibilityData::GetHiddenCount
GetHiddenCount(data, instanceId) ==
    IF instanceId \notin DOMAIN data THEN 0
    ELSE Cardinality(DOMAIN data[instanceId])

\* CVisibilityData::ClearAll
ClearAll == [data |-> EmptyMap, prefixes |-> EmptyMap]

\* CVisibilityData::GetHiddenPaths
GetHiddenPaths(data, instanceId) ==
    IF instanceId \notin DOMAIN data THEN {}
    ELSE { p \in DOMAIN data[instanceId] :
             data[instanceId][p] = CS_HIDDEN \/ data[instanceId][p] = CS_SUPPRESSED }

\* CVisibilityData::GetManagedInstanceIds (as a set; the vector's order is
\* the unordered_map's iteration order)
GetManagedInstanceIds(data) ==
    { id \in DOMAIN data : DOMAIN data[id] # {} }

\* Mutant: the precomputed prefixes are not copied into the snapshot
TakeSnapshot_NoPrefixes(data, prefixes) ==
    [id \in { i \in DOMAIN data : DOMAIN data[i] # {} } |->
        [states |-> data[id], parentPrefixes |-> {}]]

\* CVisibilityData::TakeSnapshot: the CVisibilitySnapshot::m_data it returns
TakeSnapshot(data, prefixes) ==
    [id \in { i \in DOMAIN data : DOMAIN data[i] # {} } |->
        [states |-> data[id],
         parentPrefixes |-> IF id \in DOMAIN prefixes THEN prefixes[id] ELSE {}]]

-----------------------------------------------------------------------------
(* CVisibilitySnapshot queries (no lock, on the copy)                      *)

\* Mutant: the snapshot shares the store's map instead of owning a copy
SnapGetComponentState_Live(snap, instanceId, path) ==
    GetState(m_data, instanceId, path)

\* Mutant: the managed test asks the live store instead of the frame's copy
SnapIsManaged_Live(snap, instanceId) ==
    IsManaged(m_data, instanceId)

SnapIsManaged(snap, instanceId) ==
    instanceId \in DOMAIN snap /\ DOMAIN snap[instanceId].states # {}

SnapGetComponentState(snap, instanceId, path) ==
    IF instanceId \notin DOMAIN snap THEN CS_VISIBLE
    ELSE IF path \notin DOMAIN snap[instanceId].states THEN CS_VISIBLE
    ELSE snap[instanceId].states[path]

SnapHasHiddenDescendants(snap, instanceId, pathPrefix) ==
    IF instanceId \notin DOMAIN snap THEN FALSE
    ELSE pathPrefix \in snap[instanceId].parentPrefixes

SnapGetManagedInstanceIds(snap) ==
    { id \in DOMAIN snap : DOMAIN snap[id].states # {} }

-----------------------------------------------------------------------------
(* The host document the conduit looks into: two instance objects X and Y  *)
(* of block definition A, which nests B, which nests C, and one instance   *)
(* object Z of a definition R that contains an instance of itself.  Every  *)
(* object of this document resolves and is visible in its definition.      *)

Ids == {"X", "Y", "Z"}

Geometry == [type |-> "geometry", def |-> "none", visible |-> TRUE]

InstanceRef(d) == [type |-> "instance_reference", def |-> d, visible |-> TRUE]

Definitions ==
    [A |-> << Geometry, InstanceRef("B") >>,
     B |-> << InstanceRef("C"), Geometry >>,
     C |-> << Geometry, Geometry, Geometry >>,
     R |-> << InstanceRef("R"), Geometry >>]

\* CRhinoInstanceObject::InstanceDefinition of the document's instance objects
InstanceDefinition == [X |-> "A", Y |-> "A", Z |-> "R"]

\* the objects SC_DRAWOBJECT is delivered for: the instances and one curve
DocObjects == Ids \cup {"curve"}

ObjectType(obj) == IF obj \in Ids THEN "instance_reference" ELSE "geometry"

\* pDef->ObjectCount() and pDef->Object(i)
ObjectCount(d) == Len(Definitions[d])

Object(d, i) == Definitions[d][i + 1]

-----------------------------------------------------------------------------
(* CVisibilityConduit traversals.  A call is the record of one             *)
(* dp.DrawObject or ON_BoundingBox::Union: the top-level instance, the     *)
(* path of the component handed over and the opacity in force.  Transforms *)
(* are left out: the path fixes them.                                      *)

MAX_NESTING_DEPTH == 32

\* CVisibilityConduit::BuildPath
BuildPath(parentPath, childIndex) ==
    IF parentPath = << >> THEN IntToString(childIndex)
    ELSE parentPath \o << "." >> \o IntToString(childIndex)

\* dp.DrawObject(pComponent, &xform): no display attribute is pushed, so the
\* pipeline's opacity is its default one
DrawObject(id, path) == [fn |-> "DrawObject", inst |-> id, path |-> path, opacity |-> "default"]

\* CVisibilityConduit::DrawComponent
DrawComponent(id, path) == << DrawObject(id, path) >>

\* bbox.Union(compBBox)
Union(id, path) == [fn |-> "Union", inst |-> id, path |-> path, opacity |-> "default"]

RECURSIVE DrawNestedFiltered(_, _, _, _, _)
RECURSIVE DrawNestedLoop(_, _, _, _, _, _)
RECURSIVE DrawNestedLoop_SkipSuppressedOnly(_, _, _, _, _, _)

\* Mutant: the nested loop skips Suppressed components and draws Hidden ones
DrawNestedLoop_SkipSuppressedOnly(snap, d, topLevelId, parentPath, depth, i) ==
    IF i >= ObjectCount(d) THEN << >>
    ELSE
      LET childPath == BuildPath(parentPath, i)
          state == SnapGetComponentState(snap, topLevelId, childPath)
          pComponent == Object(d, i)
          skipped == state = CS_SUPPRESSED \/ ~pComponent.visible
          nested == pComponent.type = "instance_reference"
          filtered == SnapHasHiddenDescendants(snap, topLevelId, childPath)
          calls ==
            CASE skipped -> << >>
              [] ~skipped /\ nested /\ filtered ->
                   DrawNestedFiltered(snap, pComponent.def, topLevelId, childPath, depth + 1)
              [] ~skipped /\ nested /\ ~filtered -> DrawComponent(topLevelId, childPath)
              [] ~skipped /\ ~nested -> << DrawObject(topLevelId, childPath) >>
      IN  calls \o DrawNestedLoop_SkipSuppressedOnly(snap, d, topLevelId, parentPath,
                                                     depth, i + 1)

\* the for loop of DrawNestedFiltered from component i on
DrawNestedLoop(snap, d, topLevelId, parentPath, depth, i) ==
    IF i >= ObjectCount(d) THEN << >>
    ELSE
      LET childPath == BuildPath(parentPath, i)
          state == SnapGetComponentState(snap, topLevelId, childPath)
          pComponent == Object(d, i)
          skipped == state = CS_HIDDEN \/ state = CS_SUPPRESSED \/ ~pComponent.visible
          nested == pComponent.type = "instance_reference"
          filtered == SnapHasHiddenDescendants(snap, topLevelId, childPath)
          calls ==
            CASE skipped -> << >>
              [] ~skipped /\ nested /\ filtered ->
                   DrawNestedFiltered(snap, pComponent.def, topLevelId, childPath, depth + 1)
              [] ~skipped /\ nested /\ ~filtered -> DrawComponent(topLevelId, childPath)
              [] ~skipped /\ ~nested /\ state = CS_TRANSPARENT ->
                   << DrawObject(topLevelId, childPath) >>
              [] ~skipped /\ ~nested /\ state # CS_TRANSPARENT ->
                   DrawComponent(topLevelId, childPath)
      IN  calls \o DrawNestedLoop(snap, d, topLevelId, parentPath, depth, i + 1)

\* Mutant: the depth guard of DrawNestedFiltered is lost
DrawNestedFiltered_NoDepthGuard(snap, d, topLevelId, parentPath, depth) ==
    IF d \notin DOMAIN Definitions THEN << >>
    ELSE DrawNestedLoop(snap, d, topLevelId, parentPath, depth, 0)

\* CVisibilityConduit::DrawNestedFiltered; d is the definition of pNestedInstance
DrawNestedFiltered(snap, d, topLevelId, parentPath, depth) ==
    IF depth >= MAX_NESTING_DEPTH \/ d \notin DOMAIN Definitions THEN << >>
    ELSE DrawNestedLoop(snap, d, topLevelId, parentPath, depth, 0)

RECURSIVE DrawTopLoop(_, _, _, _)

\* the for loop of ExecConduit (SC_DRAWOBJECT) from component i on
DrawTopLoop(snap, instanceId, d, i) ==
    IF i >= ObjectCount(d) THEN << >>
    ELSE
      LET path == IntToString(i)
          state == SnapGetComponentState(snap, instanceId, path)
          pComponent == Object(d, i)
          calls ==
            IF state = CS_HIDDEN \/ state = CS_SUPPRESSED THEN << >>
            ELSE IF ~pComponent.visible THEN << >>
            ELSE IF pComponent.type = "instance_reference"
                 THEN IF SnapHasHiddenDescendants(snap, instanceId, path)
                      THEN DrawNestedFiltered(snap, pComponent.def, instanceId, path, 0)
                      ELSE DrawComponent(instanceId, path)
                 ELSE IF state = CS_TRANSPARENT
                      THEN << DrawObject(instanceId, path) >>
                      ELSE DrawComponent(instanceId, path)
      IN  calls \o DrawTopLoop(snap, instanceId, d, i + 1)

RECURSIVE AccumulateNestedBBox(_, _, _, _, _)
RECURSIVE AccumulateLoop(_, _, _, _, _, _)
RECURSIVE AccumulateLoop_SkipHidden(_, _, _, _, _, _)

\* Mutant: the nested bounding-box loop skips Hidden components as the draw
\* loop does
AccumulateLoop_SkipHidden(snap, d, topLevelId, parentPath, depth, i) ==
    IF i >= ObjectCount(d) THEN << >>
    ELSE
      LET childPath == BuildPath(parentPath, i)
          state == SnapGetComponentState(snap, topLevelId, childPath)
          pComp == Object(d, i)
          skipped == state = CS_HIDDEN \/ state = CS_SUPPRESSED \/ ~pComp.visible
          filtered == pComp.type = "instance_reference"
                        /\ SnapHasHiddenDescendants(snap, topLevelId, childPath)
          calls ==
            CASE skipped -> << >>
              [] ~skipped /\ filtered ->
                   AccumulateNestedBBox(snap, pComp.def, topLevelId, childPath, depth + 1)
              [] ~skipped /\ ~filtered -> << Union(topLevelId, childPath) >>
      IN  calls \o AccumulateLoop_SkipHidden(snap, d, topLevelId, parentPath, depth, i + 1)

\* the for loop of AccumulateNestedBBox from component i on
AccumulateLoop(snap, d, topLevelId, parentPath, depth, i) ==
    IF i >= ObjectCount(d) THEN << >>
    ELSE
      LET childPath == BuildPath(parentPath, i)
          state == SnapGetComponentState(snap, topLevelId, childPath)
          pComp == Object(d, i)
          skipped == state = CS_SUPPRESSED \/ ~pComp.visible
          filtered == pComp.type = "instance_reference"
                        /\ SnapHasHiddenDescendants(snap, topLevelId, childPath)
          calls ==
            CASE skipped -> << >>
              [] ~skipped /\ filtered ->
                   AccumulateNestedBBox(snap, pComp.def, topLevelId, childPath, depth + 1)
              [] ~skipped /\ ~filtered -> << Union(topLevelId, childPath) >>
      IN  calls \o AccumulateLoop(snap, d, topLevelId, parentPath, depth, i + 1)

\* CVisibilityConduit::AccumulateNestedBBox; d is the definition of pNestedInstance
AccumulateNestedBBox(snap, d, topLevelId, parentPath, depth) ==
    IF depth >= MAX_NESTING_DEPTH \/ d \notin DOMAIN Definitions THEN << >>
    ELSE AccumulateLoop(snap, d, topLevelId, parentPath, depth, 0)

RECURSIVE CalcComponentLoop(_, _, _, _)

\* the component loop of CalcVisibleBoundingBox from component i on
CalcComponentLoop(snap, instanceId, d, i) ==
    IF i >= ObjectCount(d) THEN << >>
    ELSE
      LET path == IntToString(i)
          state == SnapGetComponentState(snap, instanceId, path)
          pComp == Object(d, i)
          calls ==
            IF state = CS_SUPPRESSED THEN << >>
            ELSE IF ~pComp.visible THEN << >>
            ELSE IF pComp.type = "instance_reference"
                 THEN IF SnapHasHiddenDescendants(snap, instanceId, path)
                      THEN AccumulateNestedBBox(snap, pComp.def, instanceId, path, 0)
                      ELSE << Union(instanceId, path) >>
                 ELSE << Union(instanceId, path) >>
      IN  calls \o CalcComponentLoop(snap, instanceId, d, i + 1)

RECURSIVE CalcVisibleBoundingBox(_, _)

\* CVisibilityConduit::CalcVisibleBoundingBox; managedIds is the vector that
\* GetManagedInstanceIds filled, in the map's iteration order
CalcVisibleBoundingBox(snap, managedIds) ==
    IF managedIds = << >> THEN << >>
    ELSE
      LET instanceId == Head(managedIds)
          calls ==
            IF instanceId \notin Ids \/ ObjectType(instanceId) # "instance_reference"
            THEN << >>
            ELSE CalcComponentLoop(snap, instanceId, InstanceDefinition[instanceId], 0)
      IN  calls \o CalcVisibleBoundingBox(snap, Tail(managedIds))

RECURSIVE HighlightComponentLoop(_, _, _, _)

\* the component loop of DrawSelectionHighlights from component i on
HighlightComponentLoop(snap, instanceId, d, i) ==
    IF i >= ObjectCount(d) THEN << >>
    ELSE
      LET path == IntToString(i)
          state == SnapGetComponentState(snap, instanceId, path)
          pComp == Object(d, i)
          calls ==
            IF state = CS_HIDDEN \/ state = CS_SUPPRESSED THEN << >>
            ELSE IF ~pComp.visible THEN << >>
            ELSE IF pComp.type = "instance_reference"
                 THEN IF ~SnapHasHiddenDescendants(snap, instanceId, path)
                      THEN << DrawObject(instanceId, path) >>
                      ELSE << >>
                 ELSE << DrawObject(instanceId, path) >>
      IN  calls \o HighlightComponentLoop(snap, instanceId, d, i + 1)

RECURSIVE DrawSelectionHighlights(_, _, _)

\* CVisibilityConduit::DrawSelectionHighlights; sel is the set of objects for
\* which pObj->IsSelected() holds
DrawSelectionHighlights(snap, managedIds, sel) ==
    IF managedIds = << >> THEN << >>
    ELSE
      LET instanceId == Head(managedIds)
          calls ==
            IF instanceId \notin Ids \/ instanceId \notin sel
               \/ ObjectType(instanceId) # "instance_reference"
            THEN << >>
            ELSE HighlightComponentLoop(snap, instanceId, InstanceDefinition[instanceId], 0)
      IN  calls \o DrawSelectionHighlights(snap, Tail(managedIds), sel)

\* the orders in which an unordered_map may enumerate the ids of set S
Orders(S) ==
    { o \in [1 .. Cardinality(S) -> S] : \A i, j \in 1 .. Cardinality(S) : o[i] = o[j] => i = j }

-----------------------------------------------------------------------------
(* The document text codec of NativeApi.cpp                                *)

\* result += L"\n"
NL == << "\n" >>

\* ON_UuidToString, shortened: the text form of each instance id
UuidToString(id) ==
    CASE id = "X" -> << "a", "1" >>
      [] id = "Y" -> << "b", "2" >>
      [] id = "Z" -> << "c", "3" >>

\* ON_UuidFromString: the text parses to an id, or fails
UuidParses(str) == \E id \in Ids : UuidToString(id) = str

UuidFromString(str) == CHOOSE id \in Ids : UuidToString(id) = str

Digits == {"0", "1", "2", "3", "4", "5", "6", "7", "8", "9"}

DigitValue(c) == CHOOSE d \in 0 .. 9 : DigitChar(d) = c

RECURSIVE AtoiDigits(_, _, _)
AtoiDigits(str, i, acc) ==
    IF i > Len(str) \/ str[i] \notin Digits THEN acc
    ELSE AtoiDigits(str, i + 1, acc * 10 + DigitValue(str[i]))

RECURSIVE SkipSpaces(_, _)
SkipSpaces(str, i) ==
    IF i <= Len(str) /\ str[i] = " " THEN SkipSpaces(str, i + 1) ELSE i

\* std::atoi: leading blanks, an optional sign, then the leading digits (0 if none)
Atoi(str) ==
    LET b == SkipSpaces(str, 1)
        signed == b <= Len(str) /\ str[b] \in {"-", "+"}
        value == AtoiDigits(str, IF signed THEN b + 1 ELSE b, 0)
    IN  IF signed /\ str[b] = "-" THEN 0 - value ELSE value

RECURSIVE DeserializeEntries(_, _, _, _)

\* the inner while loop of DeserializeVisibilityState: the fields of one line
DeserializeEntries(line, pos, instanceId, store) ==
    IF pos >= Len(line) THEN store
    ELSE
      LET found == Find(line, "|", pos)
          nextPipe == IF found = NPOS THEN Len(line) ELSE found
          entry == Substr(line, pos, nextPipe - pos)
          colon == Find(entry, ":", 0)
          path == Substr(entry, 0, colon)
          state == Atoi(Substr(entry, colon + 1, Len(entry)))
          after ==
            IF colon = NPOS THEN store
            ELSE IF state >= CS_VISIBLE /\ state <= CS_TRANSPARENT
                 THEN SetState(store, instanceId, path, state)
                 ELSE store
      IN  DeserializeEntries(line, nextPipe + 1, instanceId, after)

RECURSIVE DeserializeLines(_, _, _)

\* Mutant: a line that cannot be parsed ends the parse (return for continue)
DeserializeLines_StopAtBadLine(str, lineStart, store) ==
    IF lineStart >= Len(str) THEN store
    ELSE
      LET found == Find(str, "\n", lineStart)
          lineEnd == IF found = NPOS THEN Len(str) ELSE found
          line == Substr(str, lineStart, lineEnd - lineStart)
          firstPipe == Find(line, "|", 0)
          uuidStr == Substr(line, 0, firstPipe)
      IN  IF line = << >> THEN DeserializeLines(str, lineEnd + 1, store)
          ELSE IF firstPipe = NPOS \/ ~UuidParses(uuidStr) THEN store
          ELSE DeserializeLines(str, lineEnd + 1,
                 DeserializeEntries(line, firstPipe + 1, UuidFromString(uuidStr), store))

\* the outer while loop of DeserializeVisibilityState: the lines of the text
DeserializeLines(str, lineStart, store) ==
    IF lineStart >= Len(str) THEN store
    ELSE
      LET found == Find(str, "\n", lineStart)
          lineEnd == IF found = NPOS THEN Len(str) ELSE found
          line == Substr(str, lineStart, lineEnd - lineStart)
          firstPipe == Find(line, "|", 0)
          uuidStr == Substr(line, 0, firstPipe)
          after ==
            IF line = << >> THEN store
            ELSE IF firstPipe = NPOS THEN store
            ELSE IF ~UuidParses(uuidStr) THEN store
            ELSE DeserializeEntries(line, firstPipe + 1, UuidFromString(uuidStr), store)
      IN  DeserializeLines(str, lineEnd + 1, after)

\* DeserializeVisibilityState(data, visData)
DeserializeVisibilityState(data, store) ==
    IF data = << >> THEN store ELSE DeserializeLines(data, 0, store)

\* Mutant: the entry is written in the old two-valued form, 1 for any
\* component that is not shown
SerializeEntry_HiddenFlag(path, state) ==
    << "|" >> \o path \o << ":" >> \o IntToString(IF state = CS_VISIBLE THEN 0 ELSE 1)

\* entry.Format(L"|%S:%d", pair.first.c_str(), (int)pair.second)
SerializeEntry(path, state) ==
    << "|" >> \o path \o << ":" >> \o IntToString(state)

RECURSIVE SerializeEntries(_, _)

\* the inner for loop of SerializeVisibilityState; paths is the sequence in
\* which the map of the instance enumerates its paths
SerializeEntries(states, paths) ==
    IF paths = << >> THEN << >>
    ELSE SerializeEntry(Head(paths), states[Head(paths)])
           \o SerializeEntries(states, Tail(paths))

RECURSIVE SerializeLines_NoNewline(_, _, _)

\* Mutant: the lines are appended without the newline that ends each
SerializeLines_NoNewline(store, managedIds, pathOrder) ==
    IF managedIds = << >> THEN << >>
    ELSE
      LET instanceId == Head(managedIds)
          snap == TakeSnapshot(store.data, store.prefixes)
          line ==
            IF instanceId \notin DOMAIN snap \/ DOMAIN snap[instanceId].states = {}
            THEN << >>
            ELSE UuidToString(instanceId)
                   \o SerializeEntries(snap[instanceId].states, pathOrder[instanceId])
      IN  line \o SerializeLines_NoNewline(store, Tail(managedIds), pathOrder)

RECURSIVE SerializeLines(_, _, _)

\* the outer for loop of SerializeVisibilityState; managedIds is the vector
\* GetManagedInstanceIds filled, pathOrder[id] the enumeration of id's paths
SerializeLines(store, managedIds, pathOrder) ==
    IF managedIds = << >> THEN << >>
    ELSE
      LET instanceId == Head(managedIds)
          snap == TakeSnapshot(store.data, store.prefixes)
          line ==
            IF instanceId \notin DOMAIN snap \/ DOMAIN snap[instanceId].states = {}
            THEN << >>
            ELSE UuidToString(instanceId)
                   \o SerializeEntries(snap[instanceId].states, pathOrder[instanceId])
                   \o NL
      IN  line \o SerializeLines(store, Tail(managedIds), pathOrder)

\* SerializeVisibilityState(visData): every text the call can return, one for
\* each order in which the two unordered maps can enumerate
SerializeVisibilityState(store) ==
    LET managed == GetManagedInstanceIds(store.data)
        pathOrders ==
          { f \in [managed -> UNION { Orders(DOMAIN store.data[id]) : id \in managed }] :
              \A id \in managed : f[id] \in Orders(DOMAIN store.data[id]) }
    IN  { SerializeLines(store, managedIds, pathOrder) :
            managedIds \in Orders(managed), pathOrder \in pathOrders }

-----------------------------------------------------------------------------
(* Inputs                                                                  *)

P0 == << "0" >>
P1 == << "1" >>
P10 == << "1", "0" >>
P1_0 == << "1", ".", "0" >>
P1_1 == << "1", ".", "1" >>
P1_0_2 == << "1", ".", "0", ".", "2" >>

\* the (instance, path, state) triples the store-only specification mutates
StoreInputs ==
    ({"X"} \X {P0, P1_0, P1_0_2} \X ComponentStates)
    \cup ({"X"} \X {P1} \X {CS_VISIBLE, CS_SUPPRESSED})
    \cup ({"X"} \X {P10} \X {CS_VISIBLE, CS_HIDDEN})
    \cup ({"Y"} \X {P0, P1_0} \X {CS_VISIBLE, CS_HIDDEN})

\* the (instance, path, state) triples the frame specification mutates
FrameInputs ==
    { << "X", P0, CS_SUPPRESSED >>, << "X", P0, CS_VISIBLE >>,
      << "X", P1_0, CS_HIDDEN >>, << "X", P1_0, CS_VISIBLE >>,
      << "Y", P0, CS_HIDDEN >>, << "Y", P0, CS_VISIBLE >> }

\* a1|1.0.2:1|10:3 \n b2|0:2 \n
TextTwoLines ==
    UuidToString("X") \o << "|" >> \o P1_0_2 \o << ":", "1", "|" >> \o P10 \o << ":", "3" >>
    \o NL \o UuidToString("Y") \o << "|" >> \o P0 \o << ":", "2" >> \o NL

\* not-a-uuid|0:1 \n a1|0:1     (no newline at the end)
TextBadUuid ==
    << "n", "o", "t", "-", "a", "-", "u", "u", "i", "d", "|", "0", ":", "1" >>
    \o NL \o UuidToString("X") \o << "|" >> \o P0 \o << ":", "1" >>

\* a1|1:9|bad|1.0:2|0:0 \n \n junk \n b2|1.0:x
TextMixed ==
    UuidToString("X") \o << "|" >> \o P1 \o << ":", "9", "|", "b", "a", "d", "|" >>
    \o P1_0 \o << ":", "2", "|" >> \o P0 \o << ":", "0" >> \o NL \o NL
    \o << "j", "u", "n", "k" >> \o NL
    \o UuidToString("Y") \o << "|" >> \o P1_0 \o << ":", "x" >>

\* a text in parts: a line is an id text followed by fields, or a text with
\* no '|'; a field is a path and an ordinal, or a text with no ':'
Field(path, ord) == [kind |-> "field", path |-> path, ord |-> ord]

NoColonField(text) == [kind |-> "nocolon", text |-> text]

Line(uuidStr, fields) == [kind |-> "line", uuid |-> uuidStr, fields |-> fields]

NoPipeLine(text) == [kind |-> "nopipe", text |-> text]

\* the decimal text of an ordinal, as %d writes it
OrdinalText(ord) == IF ord < 0 THEN << "-" >> \o IntToString(0 - ord) ELSE IntToString(ord)

RenderField(f) ==
    IF f.kind = "field" THEN f.path \o << ":" >> \o OrdinalText(f.ord) ELSE f.text

RECURSIVE RenderFields(_)
RenderFields(fields) ==
    IF fields = << >> THEN << >>
    ELSE << "|" >> \o RenderField(Head(fields)) \o RenderFields(Tail(fields))

RenderLine(l) ==
    IF l.kind = "line" THEN l.uuid \o RenderFields(l.fields) ELSE l.text

\* the text of the lines, each ended by a newline
RECURSIVE Render(_)
Render(lines) ==
    IF lines = << >> THEN << >>
    ELSE RenderLine(Head(lines)) \o NL \o Render(Tail(lines))

NotAUuid == << "n", "o", "t", "-", "a", "-", "u", "u", "i", "d" >>

\* a1|0:1 \n junk \n b2|0:1 \n          a line with no '|'
CaseNoPipe ==
    << Line(UuidToString("X"), << Field(P0, 1) >>),
       NoPipeLine(<< "j", "u", "n", "k" >>),
       Line(UuidToString("Y"), << Field(P0, 1) >>) >>

\* not-a-uuid|0:1 \n a1|1.0:2 \n       a line whose id does not parse
CaseBadUuid ==
    << Line(NotAUuid, << Field(P0, 1) >>),
       Line(UuidToString("X"), << Field(P1_0, 2) >>) >>

\* a1|0:1|bad|1.0.2:3 \n               a field with no ':'
CaseNoColon ==
    << Line(UuidToString("X"),
            << Field(P0, 1), NoColonField(<< "b", "a", "d" >>), Field(P1_0_2, 3) >>) >>

\* a1|0:0|1:7|10:-1|1.0:2 \n b2|1.0:4|0:1 \n     ordinals outside [0,3]
CaseBadOrdinal ==
    << Line(UuidToString("X"),
            << Field(P0, 0), Field(P1, 7), Field(P10, 0 - 1), Field(P1_0, 2) >>),
       Line(UuidToString("Y"), << Field(P1_0, 4), Field(P0, 1) >>) >>

\* the four malformed units in one text
CaseAll ==
    << Line(UuidToString("X"), << Field(P1, 12), NoColonField(<< "1" >>), Field(P1_0_2, 3) >>),
       NoPipeLine(P1_0 \o << ":", "1" >>),
       Line(NotAUuid, << Field(P1_0, 1) >>),
       Line(UuidToString("Y"), << Field(P0, 1) >>) >>

MalformedCases == { CaseNoPipe, CaseBadUuid, CaseNoColon, CaseBadOrdinal, CaseAll }

StoreTexts ==
    { << >>, TextTwoLines, TextBadUuid, TextMixed } \cup { Render(t) : t \in MalformedCases }

\* a1|1.0:1|0:2 \n oops \n b2|0:1
TextFrame ==
    UuidToString("X") \o << "|" >> \o P1_0 \o << ":", "1", "|" >> \o P0 \o << ":", "2" >>
    \o NL \o << "o", "o", "p", "s" >> \o NL
    \o UuidToString("Y") \o << "|" >> \o P0 \o << ":", "1" >>

FrameTexts == { TextFrame }

\* the (instance, path, state) triples the codec specification mutates
CodecInputs ==
    ({"X"} \X {P0} \X ComponentStates)
    \cup ({"X"} \X {P1_0_2} \X {CS_VISIBLE, CS_HIDDEN, CS_TRANSPARENT})
    \cup ({"X"} \X {P10} \X {CS_VISIBLE, CS_SUPPRESSED})
    \cup ({"Y"} \X {P0} \X {CS_VISIBLE, CS_HIDDEN})

-----------------------------------------------------------------------------
(* State after NativeInit: an empty store, a conduit with no valid snapshot *)

Init ==
    /\ m_data = EmptyMap
    /\ m_prefixes = EmptyMap
    /\ m_snapshot = EmptyMap
    /\ m_snapshotValid = FALSE
    /\ m_bDrawObject = TRUE
    /\ emitted = << >>
    /\ lastChannel = "none"
    /\ lastObject = "none"
    /\ selected = {}
    /\ frameCaptures = 0
    /\ frameUse = "unused"
    /\ lastPassSame = TRUE
    /\ mutatedInFrame = FALSE
    /\ preDrawn = FALSE
    /\ lockOwner = "none"
    /\ pcMut = "idle"
    /\ mutOp = [op |-> "none"]
    /\ pcRen = "idle"
    /\ renSnap = EmptyMap
    /\ docText = << >>
    /\ lastCall = [op |-> "none"]
    /\ userData = EmptyMap
    /\ g_initialized = TRUE
    /\ hydration = [op |-> "none"]

Store == [data |-> m_data, prefixes |-> m_prefixes]

\* a frame is under way once a callback of it was delivered
InFrame == lastChannel \notin {"none", "postdraw"}

\* a completed store mutation, by the mutator context
Mutate(store, call) ==
    /\ m_data' = store.data
    /\ m_prefixes' = store.prefixes
    /\ mutatedInFrame' = TRUE
    /\ lastCall' = call
    /\ UNCHANGED << conduitVars, selected, preDrawn, threadVars, docText, moduleVars >>

\* SetComponentState / SetComponentVisibility -> CVisibilityData::SetState
DoSetState(inputs) ==
    \E in \in inputs :
      Mutate(SetState(Store, in[1], in[2], in[3]),
             [op |-> "SetState", id |-> in[1], path |-> in[2], state |-> in[3]])

\* ResetComponentVisibility, OnDeleteObject -> CVisibilityData::ResetInstance
DoResetInstance ==
    \E id \in Ids :
      Mutate(ResetInstance(Store, id), [op |-> "ResetInstance", id |-> id])

\* ClearAll that empties the state map and leaves the prefix sets
DoClearAll_DataOnly ==
    Mutate([data |-> EmptyMap, prefixes |-> m_prefixes],
           [op |-> "ClearAll", was |-> GetManagedInstanceIds(m_data)])

\* OnCloseDocument -> CVisibilityData::ClearAll; the call is recorded with the
\* instances that were managed when it was made
DoClearAll ==
    Mutate(ClearAll, [op |-> "ClearAll", was |-> GetManagedInstanceIds(m_data)])

\* LoadVisibilityState -> DeserializeVisibilityState
DoDeserialize(texts) ==
    \E data \in texts :
      Mutate(DeserializeVisibilityState(data, Store),
             [op |-> "DeserializeVisibilityState", data |-> data])

\* CDocEventHandler::OnDeleteObject on the pair (m_data, m_prefixes)
OnDeleteObject(store, object) ==
    IF ObjectType(object) # "instance_reference" THEN store
    ELSE IF IsManaged(store.data, object) THEN ResetInstance(store, object)
    ELSE store

\* the host reports the deletion of a document object
DoDeleteObject ==
    \E object \in DocObjects :
      Mutate(OnDeleteObject(Store, object), [op |-> "OnDeleteObject", id |-> object])

\* PersistVisibilityState: the serialized store becomes the document's text;
\* nothing happens while the module is not initialized
PersistVisibilityState ==
    /\ IF ~g_initialized THEN docText' = docText
       ELSE \E serialized \in SerializeVisibilityState(Store) : docText' = serialized
    /\ lastCall' = [op |-> "PersistVisibilityState"]
    /\ UNCHANGED << storeVars, conduitVars, selected, mutatedInFrame, preDrawn, threadVars,
                    moduleVars >>

\* LoadVisibilityState: the document's text is deserialized into the store;
\* nothing happens while the module is not initialized
LoadVisibilityState ==
    Mutate(IF ~g_initialized THEN Store ELSE DeserializeVisibilityState(docText, Store),
           [op |-> "LoadVisibilityState"])

-----------------------------------------------------------------------------
(* CVisibilityConduit::ExecConduit, one action per channel.  The callback   *)
(* takes its snapshot under the store's lock and then reads only the copy.  *)

\* the first callback after a frame ended opens the next frame
OpenFrame == mutatedInFrame' = IF InFrame THEN mutatedInFrame ELSE FALSE

\* if (!m_snapshotValid) { m_snapshot = m_visData.TakeSnapshot(); ... }
EnsuredSnapshot ==
    IF m_snapshotValid THEN m_snapshot ELSE TakeSnapshot(m_data, m_prefixes)

EnsureCount == IF m_snapshotValid THEN 0 ELSE 1

\* frameUse once the conduit's snapshot became snap
UseAfterCapture(snap) ==
    IF frameUse = "used" /\ snap # m_snapshot THEN "split" ELSE frameUse

\* bookkeeping of a pass that consulted snap
NotePass(snap) ==
    /\ lastPassSame' = (UseAfterCapture(snap) # "split")
    /\ frameUse' = IF UseAfterCapture(snap) = "unused" THEN "used"
                    ELSE UseAfterCapture(snap)

\* nChannel == SC_PREDRAWOBJECTS
PreDrawObjects ==
    /\ ~preDrawn
    /\ preDrawn' = TRUE
    /\ m_snapshot' = TakeSnapshot(m_data, m_prefixes)
    /\ m_snapshotValid' = TRUE
    /\ frameCaptures' = frameCaptures + 1
    /\ lastChannel' = "predraw"
    /\ lastObject' = "none"
    /\ emitted' = << >>
    /\ m_bDrawObject' = TRUE
    /\ frameUse' = UseAfterCapture(TakeSnapshot(m_data, m_prefixes))
    /\ OpenFrame
    /\ UNCHANGED << storeVars, selected, lastPassSame, threadVars, docVars >>

\* nChannel == SC_CALCBOUNDINGBOX
CalcBoundingBox ==
    /\ m_snapshot' = EnsuredSnapshot
    /\ m_snapshotValid' = TRUE
    /\ frameCaptures' = frameCaptures + EnsureCount
    /\ \E managedIds \in Orders(SnapGetManagedInstanceIds(EnsuredSnapshot)) :
          emitted' = CalcVisibleBoundingBox(EnsuredSnapshot, managedIds)
    /\ lastChannel' = "bbox"
    /\ lastObject' = "none"
    /\ m_bDrawObject' = TRUE
    /\ NotePass(EnsuredSnapshot)
    /\ OpenFrame
    /\ UNCHANGED << storeVars, selected, preDrawn, threadVars, docVars >>

\* nChannel == SC_POSTDRAWOBJECTS
PostDrawObjects ==
    /\ m_snapshot' = EnsuredSnapshot
    /\ m_snapshotValid' = FALSE
    /\ \E managedIds \in Orders(SnapGetManagedInstanceIds(EnsuredSnapshot)) :
          emitted' = DrawSelectionHighlights(EnsuredSnapshot, managedIds, selected)
    /\ lastChannel' = "postdraw"
    /\ lastObject' = "none"
    /\ m_bDrawObject' = TRUE
    /\ lastPassSame' = (UseAfterCapture(EnsuredSnapshot) # "split")
    /\ frameUse' = "unused"
    /\ frameCaptures' = 0
    /\ preDrawn' = FALSE
    /\ OpenFrame
    /\ UNCHANGED << storeVars, selected, threadVars, docVars >>

\* nChannel == SC_DRAWOBJECT for the object pObject; the host hands the
\* channel attributes over with m_bDrawObject == true
DrawObjectChannel ==
    \E pObject \in DocObjects :
      /\ lastChannel' = "draw"
      /\ lastObject' = pObject
      /\ OpenFrame
      /\ UNCHANGED << storeVars, selected, preDrawn, threadVars, docVars >>
      /\ IF ObjectType(pObject) # "instance_reference"
         THEN /\ m_bDrawObject' = TRUE
              /\ emitted' = << >>
              /\ UNCHANGED << m_snapshot, m_snapshotValid, frameCaptures,
                              frameUse, lastPassSame >>
         ELSE /\ m_snapshot' = EnsuredSnapshot
              /\ m_snapshotValid' = TRUE
              /\ frameCaptures' = frameCaptures + EnsureCount
              /\ NotePass(EnsuredSnapshot)
              /\ IF ~SnapIsManaged(EnsuredSnapshot, pObject)
                 THEN /\ m_bDrawObject' = TRUE
                      /\ emitted' = << >>
                 ELSE /\ m_bDrawObject' = FALSE
                      /\ emitted' = DrawTopLoop(EnsuredSnapshot, pObject,
                                                InstanceDefinition[pObject], 0)

-----------------------------------------------------------------------------
(* The host                                                                *)

\* the user selects or deselects an instance object
HostSelect ==
    /\ \E id \in Ids : selected' = IF id \in selected THEN selected \ {id}
                                   ELSE selected \cup {id}
    /\ UNCHANGED << storeVars, conduitVars, mutatedInFrame, preDrawn, threadVars, docVars >>

\* a bounding-box computation outside a redraw (zoom extents) ends with no
\* SC_POSTDRAWOBJECTS; the next callback belongs to a new frame
HostAbandonFrame ==
    /\ lastChannel = "bbox"
    /\ ~preDrawn
    /\ lastChannel' = "none"
    /\ UNCHANGED << storeVars, m_snapshot, m_snapshotValid, m_bDrawObject, emitted,
                    lastObject, frameCaptures, frameUse, lastPassSame,
                    selected, mutatedInFrame, preDrawn, threadVars, docVars >>

Next ==
    \/ DoSetState(FrameInputs)
    \/ DoResetInstance
    \/ DoClearAll
    \/ DoDeserialize(FrameTexts)
    \/ PreDrawObjects
    \/ CalcBoundingBox
    \/ DrawObjectChannel
    \/ PostDrawObjects
    \/ HostAbandonFrame

Spec == Init /\ [][Next]_vars

\* the store alone, over more paths and the malformed texts
NextStore ==
    \/ DoSetState(StoreInputs)
    \/ DoResetInstance
    \/ DoClearAll
    \/ DoDeserialize(StoreTexts)
    \/ DoDeleteObject

SpecStore == Init /\ [][NextStore]_vars

\* the store and the document text: states are set, saved, cleared and loaded
NextCodec ==
    \/ DoSetState(CodecInputs)
    \/ DoClearAll
    \/ PersistVisibilityState
    \/ LoadVisibilityState

SpecCodec == Init /\ [][NextCodec]_vars

\* the traversals, over every store the draw inputs can build and with no
\* mutation under way: the store is the one a sequence of SetState calls left
DrawStores ==
    { SetState(SetState(SetState(SetState(SetState(SetState(ClearAll,
          "X", P0, s0), "X", P1, s1), "X", P1_0, s10), "X", P1_0_2, s102),
          "X", P1_1, s11), "Y", P0, y0) :
        s0 \in {CS_VISIBLE, CS_SUPPRESSED, CS_TRANSPARENT},
        s1 \in {CS_VISIBLE, CS_TRANSPARENT},
        s10 \in {CS_VISIBLE, CS_HIDDEN, CS_TRANSPARENT},
        s102 \in {CS_VISIBLE, CS_HIDDEN, CS_SUPPRESSED},
        s11 \in {CS_VISIBLE, CS_TRANSPARENT},
        y0 \in {CS_VISIBLE, CS_HIDDEN} }

InitDraw ==
    /\ \E store \in DrawStores : m_data = store.data /\ m_prefixes = store.prefixes
    /\ m_snapshot = EmptyMap
    /\ m_snapshotValid = FALSE
    /\ m_bDrawObject = TRUE
    /\ emitted = << >>
    /\ lastChannel = "none"
    /\ lastObject = "none"
    /\ selected = {}
    /\ frameCaptures = 0
    /\ frameUse = "unused"
    /\ lastPassSame = TRUE
    /\ mutatedInFrame = FALSE
    /\ preDrawn = FALSE
    /\ lockOwner = "none"
    /\ pcMut = "idle"
    /\ mutOp = [op |-> "none"]
    /\ pcRen = "idle"
    /\ renSnap = EmptyMap
    /\ docText = << >>
    /\ lastCall = [op |-> "none"]
    /\ userData = EmptyMap
    /\ g_initialized = TRUE
    /\ hydration = [op |-> "none"]

NextDraw ==
    \/ PreDrawObjects
    \/ CalcBoundingBox
    \/ DrawObjectChannel
    \/ PostDrawObjects
    \/ HostSelect

SpecDraw == InitDraw /\ [][NextDraw]_vars

\* the path of the nested instance of R at level k of Z: "0.0. ... .0", k zeros
RECURSIVE Zeros(_)
Zeros(k) == IF k = 0 THEN << >> ELSE BuildPath(Zeros(k - 1), 0)

\* the path of the geometry component of R at level k of Z
DeepPath(k) == BuildPath(Zeros(k), 1)

\* the levels at which the deep stores override the geometry of Z: near the
\* top and on both sides of MAX_NESTING_DEPTH
DeepLevels == {0, 1, 2, 30, 31, 32, 33, 34}

\* the traversals over the self-containing definition R: the store is the one
\* a SetState call on a geometry component of Z at some level left
DeepStores ==
    { SetState(SetState(ClearAll, "Z", DeepPath(k), s), "X", P0, x0) :
        k \in DeepLevels,
        s \in {CS_HIDDEN, CS_SUPPRESSED, CS_TRANSPARENT},
        x0 \in {CS_VISIBLE, CS_HIDDEN} }

InitDeep ==
    /\ \E store \in DeepStores : m_data = store.data /\ m_prefixes = store.prefixes
    /\ m_snapshot = EmptyMap
    /\ m_snapshotValid = FALSE
    /\ m_bDrawObject = TRUE
    /\ emitted = << >>
    /\ lastChannel = "none"
    /\ lastObject = "none"
    /\ selected = {}
    /\ frameCaptures = 0
    /\ frameUse = "unused"
    /\ lastPassSame = TRUE
    /\ mutatedInFrame = FALSE
    /\ preDrawn = FALSE
    /\ lockOwner = "none"
    /\ pcMut = "idle"
    /\ mutOp = [op |-> "none"]
    /\ pcRen = "idle"
    /\ renSnap = EmptyMap
    /\ docText = << >>
    /\ lastCall = [op |-> "none"]
    /\ userData = EmptyMap
    /\ g_initialized = TRUE
    /\ hydration = [op |-> "none"]

SpecDeep == InitDeep /\ [][NextDraw]_vars

-----------------------------------------------------------------------------
(* The store methods at the grain of the lock: a mutator thread running     *)
(* SetState, ResetInstance or ClearAll and a render thread running          *)
(* TakeSnapshot, each method split at EnterCriticalSection, at every        *)
(* container update and at LeaveCriticalSection.                            *)

\* the (instance, path, state) triples the mutator thread sets
LockInputs ==
    { << "X", P0, CS_SUPPRESSED >>, << "X", P0, CS_VISIBLE >>,
      << "X", P1_0, CS_HIDDEN >>, << "X", P1_0, CS_VISIBLE >>,
      << "Y", P0, CS_HIDDEN >>, << "Y", P0, CS_VISIBLE >> }

\* Mutant: the constructor of CAutoLock does not wait for the section
EnterCriticalSection_NoWait(thread) ==
    lockOwner' = thread

\* CAutoLock::CAutoLock -> ::EnterCriticalSection(&m_cs)
EnterCriticalSection(thread) ==
    /\ lockOwner = "none"
    /\ lockOwner' = thread

\* CAutoLock::~CAutoLock -> ::LeaveCriticalSection(&m_cs)
LeaveCriticalSection == lockOwner' = "none"

\* the mutator context calls a store method
MutCall ==
    /\ pcMut = "idle"
    /\ \/ \E in \in LockInputs :
            mutOp' = [op |-> "SetState", id |-> in[1], path |-> in[2], state |-> in[3]]
       \/ \E id \in Ids : mutOp' = [op |-> "ResetInstance", id |-> id]
       \/ mutOp' = [op |-> "ClearAll"]
    /\ pcMut' = "enter"
    /\ UNCHANGED << storeVars, conduitVars, selected, mutatedInFrame, preDrawn,
                    lockOwner, pcRen, renSnap, docVars >>

\* CAutoLock lock(m_cs) of the method
MutEnter ==
    /\ pcMut = "enter"
    /\ EnterCriticalSection("mutator")
    /\ pcMut' = "data"
    /\ UNCHANGED << storeVars, conduitVars, selected, mutatedInFrame, preDrawn,
                    mutOp, pcRen, renSnap, docVars >>

\* the update of m_data: SetState lines 161-170 and 175, ResetInstance line
\* 209, ClearAll line 259
MutData ==
    /\ pcMut = "data"
    /\ m_data' = CASE mutOp.op = "SetState" ->
                        SetStateData(m_data, mutOp.id, mutOp.path, mutOp.state)
                   [] mutOp.op = "ResetInstance" -> MapErase(m_data, mutOp.id)
                   [] mutOp.op = "ClearAll" -> EmptyMap
    /\ pcMut' = "prefixes"
    /\ UNCHANGED << m_prefixes, conduitVars, selected, mutatedInFrame, preDrawn,
                    lockOwner, mutOp, pcRen, renSnap, docVars >>

\* the update of m_prefixes: RebuildPrefixes in SetState, ResetInstance line
\* 210, ClearAll line 260
MutPrefixes ==
    /\ pcMut = "prefixes"
    /\ m_prefixes' = CASE mutOp.op = "SetState" ->
                            RebuildPrefixes(m_data, m_prefixes, mutOp.id)
                       [] mutOp.op = "ResetInstance" -> MapErase(m_prefixes, mutOp.id)
                       [] mutOp.op = "ClearAll" -> EmptyMap
    /\ pcMut' = "leave"
    /\ UNCHANGED << m_data, conduitVars, selected, mutatedInFrame, preDrawn,
                    lockOwner, mutOp, pcRen, renSnap, docVars >>

\* the method returns: ~CAutoLock
MutLeave ==
    /\ pcMut = "leave"
    /\ LeaveCriticalSection
    /\ pcMut' = "idle"
    /\ mutOp' = [op |-> "none"]
    /\ UNCHANGED << storeVars, conduitVars, selected, mutatedInFrame, preDrawn,
                    pcRen, renSnap, docVars >>

\* the conduit, on the render thread, calls m_visData.TakeSnapshot()
RenCall ==
    /\ pcRen = "idle"
    /\ pcRen' = "enter"
    /\ UNCHANGED << storeVars, conduitVars, selected, mutatedInFrame, preDrawn,
                    lockOwner, pcMut, mutOp, renSnap, docVars >>

\* CAutoLock lock(m_cs); CVisibilitySnapshot snap;
RenEnter ==
    /\ pcRen = "enter"
    /\ EnterCriticalSection("render")
    /\ pcRen' = "copy"
    /\ renSnap' = [snap |-> EmptyMap, done |-> {}]
    /\ UNCHANGED << storeVars, conduitVars, selected, mutatedInFrame, preDrawn,
                    pcMut, mutOp, docVars >>

\* one iteration of the for loop of TakeSnapshot, for the next instance in
\* the map's iteration order
RenCopy ==
    /\ pcRen = "copy"
    /\ \E id \in (DOMAIN m_data) \ renSnap.done :
         renSnap' =
           [snap |-> IF DOMAIN m_data[id] = {} THEN renSnap.snap
                     ELSE MapPut(renSnap.snap, id,
                            [states |-> m_data[id],
                             parentPrefixes |-> IF id \in DOMAIN m_prefixes
                                                THEN m_prefixes[id] ELSE {}]),
            done |-> renSnap.done \cup {id}]
    /\ UNCHANGED << storeVars, conduitVars, selected, mutatedInFrame, preDrawn,
                    lockOwner, pcMut, mutOp, pcRen, docVars >>

\* return snap; ~CAutoLock; m_snapshot = (the returned value)
RenLeave ==
    /\ pcRen = "copy"
    /\ (DOMAIN m_data) \subseteq renSnap.done
    /\ LeaveCriticalSection
    /\ m_snapshot' = renSnap.snap
    /\ m_snapshotValid' = TRUE
    /\ renSnap' = EmptyMap
    /\ pcRen' = "idle"
    /\ UNCHANGED << storeVars, m_bDrawObject, emitted, lastChannel, lastObject,
                    frameCaptures, frameUse, lastPassSame, selected, mutatedInFrame,
                    preDrawn, pcMut, mutOp, docVars >>

NextLock ==
    \/ MutCall
    \/ MutEnter
    \/ MutData
    \/ MutPrefixes
    \/ MutLeave
    \/ RenCall
    \/ RenEnter
    \/ RenCopy
    \/ RenLeave

SpecLock == Init /\ [][NextLock]_vars

-----------------------------------------------------------------------------
(* CComponentVisibilityData, the user data of an instance object, and the  *)
(* document events of CDocEventHandler that write and read it.  userData   *)
(* maps an instance object to the HiddenPaths of the user data attached to *)
(* its geometry; an object without user data has no entry.                 *)

\* CComponentVisibilityData::SyncFromVisData: HiddenPaths after the call
SyncFromVisData(data, instanceId) == GetHiddenPaths(data, instanceId)

\* for (const auto& path : HiddenPaths) visData.SetComponentHidden(...), the
\* unordered_set enumerated in the order `paths`
RECURSIVE HideLoop(_, _, _)
HideLoop(store, instanceId, paths) ==
    IF paths = << >> THEN store
    ELSE HideLoop(SetState(store, instanceId, Head(paths), CS_HIDDEN),
                  instanceId, Tail(paths))

\* Mutant: the instance is not reset before the recorded paths are hidden
SyncToVisData_NoReset(store, instanceId, paths) ==
    HideLoop(store, instanceId, paths)

\* CComponentVisibilityData::SyncToVisData
SyncToVisData(store, instanceId, paths) ==
    HideLoop(ResetInstance(store, instanceId), instanceId, paths)

\* CComponentVisibilityData::Write: the chunk's content, the count and then
\* each path as a string, HiddenPaths enumerated in the order `paths`
Write(paths) == << Len(paths) >> \o paths

\* CComponentVisibilityData::Read: HiddenPaths after reading the chunk
Read(archive) == { archive[i + 1] : i \in 1 .. archive[1] }

\* the HiddenPaths an object's user data may have after the host wrote it to
\* the file and read it back
Reopened(HiddenPaths) == { Read(Write(o)) : o \in Orders(HiddenPaths) }

\* the user data of the document's objects as the opened file gives them
ReadBack(ud) ==
    LET all == UNION { Reopened(ud[o]) : o \in DOMAIN ud }
    IN  { f \in [DOMAIN ud -> all] : \A o \in DOMAIN ud : f[o] \in Reopened(ud[o]) }

\* OnBeginSaveDocument, the loop over managedIds enumerated in the order
\* `ids`: the object's user data is removed and a new one attached when the
\* instance has hidden paths
RECURSIVE SaveLoop(_, _, _)
SaveLoop(ud, data, ids) ==
    IF ids = << >> THEN ud
    ELSE LET instanceId == Head(ids)
             HiddenPaths == SyncFromVisData(data, instanceId)
             next == IF ObjectType(instanceId) # "instance_reference" THEN ud
                     ELSE IF HiddenPaths # {} THEN MapPut(ud, instanceId, HiddenPaths)
                     ELSE MapErase(ud, instanceId)
         IN  SaveLoop(next, data, Tail(ids))

\* CDocEventHandler::OnBeginSaveDocument
OnBeginSaveDocument ==
    /\ \E ids \in Orders(GetManagedInstanceIds(m_data)) :
          userData' = SaveLoop(userData, m_data, ids)
    /\ lastCall' = [op |-> "OnBeginSaveDocument"]
    /\ UNCHANGED << storeVars, conduitVars, selected, mutatedInFrame, preDrawn, threadVars,
                    docText, g_initialized, hydration >>

\* OnEndOpenDocument, the loop over the document's instance objects in the
\* order `objects`; order[o] is the order in which o's HiddenPaths come
RECURSIVE OpenLoop(_, _, _, _)
OpenLoop(store, ud, objects, order) ==
    IF objects = << >> THEN store
    ELSE LET pObject == Head(objects)
             next == IF ObjectType(pObject) # "instance_reference" THEN store
                     ELSE IF pObject \in DOMAIN ud /\ ud[pObject] # {}
                          THEN SyncToVisData(store, pObject, order[pObject])
                          ELSE store
         IN  OpenLoop(next, ud, Tail(objects), order)

\* the orders in which the HiddenPaths of each object's user data may come
PathOrders(ud) ==
    LET all == UNION { Orders(ud[o]) : o \in DOMAIN ud }
    IN  { f \in [DOMAIN ud -> all] : \A o \in DOMAIN ud : f[o] \in Orders(ud[o]) }

\* CDocEventHandler::OnEndOpenDocument; the call is recorded with the state
\* map it found
OnEndOpenDocument ==
    \E objects \in Orders(DocObjects) : \E read \in ReadBack(userData) :
      \E order \in PathOrders(read) :
        Mutate(OpenLoop(Store, read, objects, order),
               [op |-> "OnEndOpenDocument", before |-> m_data])

\* the (instance, path, state) triples set between the document events
DocInputs ==
    ({"X"} \X {P0, P1_0} \X ComponentStates)
    \cup ({"Y"} \X {P0} \X {CS_VISIBLE, CS_HIDDEN})

\* the store and the objects' user data: states are set, the document is
\* saved, closed and opened (or merged into the open one)
NextDoc ==
    \/ DoSetState(DocInputs)
    \/ OnBeginSaveDocument
    \/ DoClearAll
    \/ OnEndOpenDocument

SpecDoc == Init /\ [][NextDoc]_vars

-----------------------------------------------------------------------------
(* The exported entry points of NativeApi.cpp.  A call is recorded with    *)
(* its arguments and the value it returned.  While g_initialized is false  *)
(* g_pVisData is null: there is no store, m_data and m_prefixes are empty. *)

\* a null const ON_UUID* and a null const char*
NULL_ID == "NULL"
NULL_PATH == << "NULL" >>

\* Mutant: SetComponentState does not look at g_initialized
SetComponentState_NoInitGuard(init, store, instanceId, path, state) ==
    IF instanceId = NULL_ID \/ path = NULL_PATH THEN [store |-> store, ret |-> FALSE]
    ELSE IF state < CS_VISIBLE \/ state > CS_TRANSPARENT THEN [store |-> store, ret |-> FALSE]
    ELSE [store |-> SetState(store, instanceId, path, state), ret |-> TRUE]

\* Mutant: SetComponentState hands any ordinal to the store
SetComponentState_NoRangeCheck(init, store, instanceId, path, state) ==
    IF ~init \/ instanceId = NULL_ID \/ path = NULL_PATH THEN [store |-> store, ret |-> FALSE]
    ELSE [store |-> SetState(store, instanceId, path, state), ret |-> TRUE]

\* SetComponentState: the store it leaves and the value it returns
SetComponentState(init, store, instanceId, path, state) ==
    IF ~init \/ instanceId = NULL_ID \/ path = NULL_PATH THEN [store |-> store, ret |-> FALSE]
    ELSE IF state < CS_VISIBLE \/ state > CS_TRANSPARENT THEN [store |-> store, ret |-> FALSE]
    ELSE [store |-> SetState(store, instanceId, path, state), ret |-> TRUE]

\* Mutant: showing a component only undoes Hidden, other states are kept
SetComponentVisibility_ShowOnlyHidden(init, store, instanceId, componentPath, visible) ==
    IF ~init \/ instanceId = NULL_ID \/ componentPath = NULL_PATH
    THEN [store |-> store, ret |-> FALSE]
    ELSE IF visible
    THEN [store |-> IF GetState(store.data, instanceId, componentPath) = CS_HIDDEN
                    THEN SetState(store, instanceId, componentPath, CS_VISIBLE)
                    ELSE store,
          ret |-> TRUE]
    ELSE [store |-> SetState(store, instanceId, componentPath, CS_HIDDEN), ret |-> TRUE]

\* SetComponentVisibility: the store it leaves and the value it returns
SetComponentVisibility(init, store, instanceId, componentPath, visible) ==
    IF ~init \/ instanceId = NULL_ID \/ componentPath = NULL_PATH
    THEN [store |-> store, ret |-> FALSE]
    ELSE IF visible
    THEN [store |-> SetState(store, instanceId, componentPath, CS_VISIBLE), ret |-> TRUE]
    ELSE [store |-> SetState(store, instanceId, componentPath, CS_HIDDEN), ret |-> TRUE]

\* IsComponentVisible
IsComponentVisible(init, data, instanceId, componentPath) ==
    IF ~init \/ instanceId = NULL_ID \/ componentPath = NULL_PATH THEN TRUE
    ELSE ~IsComponentHidden(data, instanceId, componentPath)

\* GetHiddenComponentCount
GetHiddenComponentCount(init, data, instanceId) ==
    IF ~init \/ instanceId = NULL_ID THEN 0
    ELSE GetHiddenCount(data, instanceId)

\* GetComponentState
GetComponentState(init, data, instanceId, path) ==
    IF ~init \/ instanceId = NULL_ID \/ path = NULL_PATH THEN CS_VISIBLE
    ELSE GetState(data, instanceId, path)

\* GetManagedInstances: the count it returns
GetManagedInstances(init, data) ==
    IF ~init THEN 0
    ELSE Cardinality(GetManagedInstanceIds(data))

\* ResetComponentVisibility: the store it leaves
ResetComponentVisibility(init, store, instanceId) ==
    IF ~init \/ instanceId = NULL_ID THEN store
    ELSE ResetInstance(store, instanceId)

\* the arguments the host process passes
ApiIds == {"X", NULL_ID}
ApiPaths == {P0, P1_0, NULL_PATH}
ApiStates == {CS_VISIBLE - 1, CS_VISIBLE, CS_HIDDEN, CS_TRANSPARENT, CS_TRANSPARENT + 1}

\* the (instance, path, ordinal) triples passed to SetComponentState
ApiStateInputs ==
    (ApiIds \X ApiPaths \X ApiStates) \cup { << "X", P0, CS_SUPPRESSED >> }

\* an entry point returned: the store it left, g_initialized and the call
Returned(store, init, call) ==
    /\ m_data' = store.data
    /\ m_prefixes' = store.prefixes
    /\ g_initialized' = init
    /\ lastCall' = call
    /\ UNCHANGED << conduitVars, selected, mutatedInFrame, preDrawn, threadVars, docText,
                    userData, hydration >>

\* Mutant: NativeInit makes a new store also when the module is initialized
NativeInit_AlwaysNew ==
    Returned([data |-> EmptyMap, prefixes |-> EmptyMap],
             TRUE, [op |-> "NativeInit", ret |-> TRUE, was |-> g_initialized])

\* NativeInit: a new, empty store unless the module is initialized already;
\* the call is recorded with g_initialized as it found it
NativeInit ==
    Returned(IF g_initialized THEN Store ELSE [data |-> EmptyMap, prefixes |-> EmptyMap],
             TRUE, [op |-> "NativeInit", ret |-> TRUE, was |-> g_initialized])

\* NativeCleanup: nothing on a module that is not initialized, else the store
\* is deleted; the call is recorded with g_initialized as it found it
NativeCleanup ==
    Returned(IF ~g_initialized THEN Store ELSE [data |-> EmptyMap, prefixes |-> EmptyMap],
             FALSE, [op |-> "NativeCleanup", was |-> g_initialized])

ApiSetComponentState ==
    \E in \in ApiStateInputs :
      LET r == SetComponentState(g_initialized, Store, in[1], in[2], in[3])
      IN  Returned(r.store, g_initialized,
                   [op |-> "SetComponentState", id |-> in[1], path |-> in[2],
                    state |-> in[3], ret |-> r.ret])

ApiSetComponentVisibility ==
    \E instanceId \in ApiIds : \E path \in ApiPaths : \E visible \in BOOLEAN :
      LET r == SetComponentVisibility(g_initialized, Store, instanceId, path, visible)
      IN  Returned(r.store, g_initialized,
                   [op |-> "SetComponentVisibility", id |-> instanceId, path |-> path,
                    visible |-> visible, ret |-> r.ret,
                    was |-> GetComponentState(g_initialized, m_data, instanceId, path)])

ApiIsComponentVisible ==
    \E instanceId \in ApiIds : \E path \in ApiPaths :
      Returned(Store, g_initialized,
               [op |-> "IsComponentVisible", id |-> instanceId, path |-> path,
                ret |-> IsComponentVisible(g_initialized, m_data, instanceId, path)])

ApiGetHiddenComponentCount ==
    \E instanceId \in ApiIds :
      Returned(Store, g_initialized,
               [op |-> "GetHiddenComponentCount", id |-> instanceId,
                ret |-> GetHiddenComponentCount(g_initialized, m_data, instanceId)])

ApiGetComponentState ==
    \E instanceId \in ApiIds : \E path \in ApiPaths :
      Returned(Store, g_initialized,
               [op |-> "GetComponentState", id |-> instanceId, path |-> path,
                ret |-> GetComponentState(g_initialized, m_data, instanceId, path)])

ApiGetManagedInstances ==
    Returned(Store, g_initialized,
             [op |-> "GetManagedInstances", ret |-> GetManagedInstances(g_initialized, m_data)])

ApiResetComponentVisibility ==
    \E instanceId \in ApiIds :
      Returned(ResetComponentVisibility(g_initialized, Store, instanceId), g_initialized,
               [op |-> "ResetComponentVisibility", id |-> instanceId])

\* the module as loaded: g_initialized is false, NativeInit has not run
InitApi ==
    /\ m_data = EmptyMap
    /\ m_prefixes = EmptyMap
    /\ m_snapshot = EmptyMap
    /\ m_snapshotValid = FALSE
    /\ m_bDrawObject = TRUE
    /\ emitted = << >>
    /\ lastChannel = "none"
    /\ lastObject = "none"
    /\ selected = {}
    /\ frameCaptures = 0
    /\ frameUse = "unused"
    /\ lastPassSame = TRUE
    /\ mutatedInFrame = FALSE
    /\ preDrawn = FALSE
    /\ lockOwner = "none"
    /\ pcMut = "idle"
    /\ mutOp = [op |-> "none"]
    /\ pcRen = "idle"
    /\ renSnap = EmptyMap
    /\ docText = << >>
    /\ lastCall = [op |-> "none"]
    /\ userData = EmptyMap
    /\ g_initialized = FALSE
    /\ hydration = [op |-> "none"]

NextApi ==
    \/ NativeInit
    \/ NativeCleanup
    \/ ApiSetComponentState
    \/ ApiSetComponentVisibility
    \/ ApiIsComponentVisible
    \/ ApiGetHiddenComponentCount
    \/ ApiGetComponentState
    \/ ApiGetManagedInstances
    \/ ApiResetComponentVisibility
    \/ PersistVisibilityState
    \/ LoadVisibilityState

SpecApi == InitApi /\ [][NextApi]_vars

-----------------------------------------------------------------------------
(* Hydration at the grain of the lock.  SyncToVisData and                  *)
(* DeserializeVisibilityState hold no lock of their own: each store method *)
(* they call takes and releases m_cs, and the render thread may run        *)
(* TakeSnapshot between two of the calls.  hydration holds the calls still *)
(* to be made, the store found when the hydration began and the store the  *)
(* calls lead to.                                                           *)

\* visData.ResetInstance(instanceId), then SetComponentHidden(instanceId, path)
\* for each path of HiddenPaths in the order `paths`
SyncToVisDataCalls(instanceId, paths) ==
    << [op |-> "ResetInstance", id |-> instanceId] >>
      \o [i \in 1 .. Len(paths) |->
            [op |-> "SetState", id |-> instanceId, path |-> paths[i], state |-> CS_HIDDEN]]

\* visData.SetState(instanceId, path, state) for each field of a line
DeserializeCalls(instanceId, fields) ==
    [i \in 1 .. Len(fields) |->
       [op |-> "SetState", id |-> instanceId, path |-> fields[i][1], state |-> fields[i][2]]]

\* the store after the calls were made one after the other
RECURSIVE RunCalls(_, _)
RunCalls(store, calls) ==
    IF calls = << >> THEN store
    ELSE LET c == Head(calls)
             next == IF c.op = "ResetInstance" THEN ResetInstance(store, c.id)
                     ELSE SetState(store, c.id, c.path, c.state)
         IN  RunCalls(next, Tail(calls))

\* the hydrations of X: from a record with the paths "0" and "1.0", and from
\* a line with the fields 0:2 and 1.0:1
HydrationInputs ==
    { [op |-> "SyncToVisData", id |-> "X", calls |-> SyncToVisDataCalls("X", o)] :
        o \in Orders({P0, P1_0}) }
    \cup { [op |-> "DeserializeVisibilityState", id |-> "X",
            calls |-> DeserializeCalls("X", << << P0, CS_SUPPRESSED >>, << P1_0, CS_HIDDEN >> >>)] }

\* the mutator context enters SyncToVisData or the line loop of
\* DeserializeVisibilityState
HydrateBegin ==
    /\ pcMut = "idle"
    /\ hydration.op = "none"
    /\ \E h \in HydrationInputs :
         hydration' = [op |-> h.op, id |-> h.id, calls |-> h.calls,
                       pre |-> Store, post |-> RunCalls(Store, h.calls)]
    /\ UNCHANGED << storeVars, conduitVars, selected, mutatedInFrame, preDrawn, threadVars,
                    docText, lastCall, userData, g_initialized >>

\* the next store method of the hydration is called
HydrateCall ==
    /\ pcMut = "idle"
    /\ hydration.op # "none"
    /\ hydration.calls # << >>
    /\ mutOp' = Head(hydration.calls)
    /\ pcMut' = "enter"
    /\ hydration' = [hydration EXCEPT !.calls = Tail(@)]
    /\ UNCHANGED << storeVars, conduitVars, selected, mutatedInFrame, preDrawn,
                    lockOwner, pcRen, renSnap, docText, lastCall, userData, g_initialized >>

\* the hydration returns
HydrateEnd ==
    /\ pcMut = "idle"
    /\ hydration.op # "none"
    /\ hydration.calls = << >>
    /\ hydration' = [op |-> "none"]
    /\ UNCHANGED << storeVars, conduitVars, selected, mutatedInFrame, preDrawn, threadVars,
                    docText, lastCall, userData, g_initialized >>

\* a store method called by the mutator context outside a hydration
MutCallAlone == hydration.op = "none" /\ MutCall

NextHydrate ==
    \/ MutCallAlone
    \/ HydrateBegin
    \/ HydrateCall
    \/ HydrateEnd
    \/ MutEnter
    \/ MutData
    \/ MutPrefixes
    \/ MutLeave
    \/ RenCall
    \/ RenEnter
    \/ RenCopy
    \/ RenLeave

SpecHydrate == Init /\ [][NextHydrate]_vars

-----------------------------------------------------------------------------
(* Vocabulary of the properties: paths as index sequences                  *)

\* the indices of a path: its text split at the dots
RECURSIVE Indices(_)
Indices(path) ==
    LET pos == Find(path, ".", 0)
    IN  IF pos = NPOS THEN << path >>
        ELSE << Substr(path, 0, pos) >> \o Indices(Substr(path, pos + 1, Len(path)))

\* q is p or an ancestor of p, as index sequences
IsAncestorOrSelf(q, p) ==
    /\ Len(Indices(q)) <= Len(Indices(p))
    /\ SubSeq(Indices(p), 1, Len(Indices(q))) = Indices(q)

P2 == << "2" >>
P1_0_0 == << "1", ".", "0", ".", "0" >>
P1_0_1 == << "1", ".", "0", ".", "1" >>
P1_0_2_0 == << "1", ".", "0", ".", "2", ".", "0" >>
P1_10 == << "1", ".", "1", "0" >>

\* the paths the properties query
QueryPaths == {P0, P1, P2, P10, P1_0, P1_1, P1_10, P1_0_0, P1_0_1, P1_0_2, P1_0_2_0}

\* the paths with a non-Visible state, read off the state table
NonVisiblePaths(data, id) ==
    { p \in QueryPaths : GetState(data, id, p) # CS_VISIBLE }

\* C1: in every reachable store state HasHiddenDescendants(id, q) holds exactly
\* when q is, or is an index-sequence ancestor of, a path with non-Visible state
C1_PrefixCorrect ==
    /\ \A id \in Ids : id \in DOMAIN m_data => DOMAIN m_data[id] \subseteq QueryPaths
    /\ \A id \in Ids : \A q \in QueryPaths :
          HasHiddenDescendants(m_prefixes, id, q)
            <=> \E p \in NonVisiblePaths(m_data, id) : IsAncestorOrSelf(q, p)

\* "1.0.2" is Hidden for X, "10" and "1" are not stored: "1" and "1.0" answer
\* true, "10" answers false
C1_Witness ==
    /\ GetState(m_data, "X", P1_0_2) = CS_HIDDEN
    /\ NonVisiblePaths(m_data, "X") = {P1_0_2}
    /\ HasHiddenDescendants(m_prefixes, "X", P1)
    /\ HasHiddenDescendants(m_prefixes, "X", P1_0)
    /\ ~HasHiddenDescendants(m_prefixes, "X", P10)

\* every answer the conduit's snapshot gives
SnapshotAnswers ==
    [managedIds |-> SnapGetManagedInstanceIds(m_snapshot),
     managed |-> [id \in Ids |-> SnapIsManaged(m_snapshot, id)],
     state |-> [id \in Ids |-> [p \in QueryPaths |-> SnapGetComponentState(m_snapshot, id, p)]],
     hidden |-> [id \in Ids |-> [p \in QueryPaths |-> SnapHasHiddenDescendants(m_snapshot, id, p)]]]

\* C2: a step that changes the store and captures nothing leaves every answer
\* of the snapshot already taken as it was
C2_SnapshotIsolation ==
    [][ ( << m_data, m_prefixes >>' # << m_data, m_prefixes >> )
          => SnapshotAnswers' = SnapshotAnswers ]_vars

\* the snapshot still says Suppressed for X's "0" after the store made it Visible
C2_Witness ==
    /\ m_snapshotValid
    /\ SnapGetComponentState(m_snapshot, "X", P0) = CS_SUPPRESSED
    /\ SnapIsManaged(m_snapshot, "X")
    /\ GetState(m_data, "X", P0) = CS_VISIBLE
    /\ ~IsManaged(m_data, "X")

\* a callback in which the conduit calls TakeSnapshot
CaptureStep ==
    \/ PreDrawObjects
    \/ ~m_snapshotValid /\ CalcBoundingBox
    \/ ~m_snapshotValid /\ PostDrawObjects
    \/ ~m_snapshotValid /\ DrawObjectChannel /\ lastObject' \in Ids

\* C3: the snapshot a capture returns answers every query as the store did at
\* the capture
C3_SnapshotMirrorsStore ==
    [][ CaptureStep =>
          /\ SnapGetManagedInstanceIds(m_snapshot') = GetManagedInstanceIds(m_data)
          /\ \A id \in Ids :
                /\ SnapIsManaged(m_snapshot', id) = IsManaged(m_data, id)
                /\ \A p \in QueryPaths :
                      /\ SnapGetComponentState(m_snapshot', id, p) = GetState(m_data, id, p)
                      /\ SnapHasHiddenDescendants(m_snapshot', id, p)
                           = HasHiddenDescendants(m_prefixes, id, p) ]_vars

\* a capture just ran on a store in which X's "1.0" had been hidden before
C3_Witness ==
    /\ lastChannel = "predraw"
    /\ ~mutatedInFrame
    /\ GetState(m_data, "X", P1_0) = CS_HIDDEN
    /\ SnapGetComponentState(m_snapshot, "X", P1_0) = CS_HIDDEN
    /\ SnapHasHiddenDescendants(m_snapshot, "X", P1)

\* the last callback was a pass that consulted the conduit's snapshot
PassRan ==
    \/ lastChannel \in {"bbox", "postdraw"}
    \/ lastChannel = "draw" /\ lastObject \in Ids

\* C5: within one frame the conduit captures at most once and every pass
\* consults the capture the frame's first pass consulted
C5_OneCapturePerFrame ==
    /\ frameCaptures <= 1
    /\ PassRan => lastPassSame

\* C6: a pass of a frame during which the store was not mutated consults a
\* snapshot that holds every mutation completed before the frame began
C6_NextRedrawSeesMutation ==
    (PassRan /\ ~mutatedInFrame) =>
        \A id \in Ids : \A p \in QueryPaths :
            SnapGetComponentState(m_snapshot, id, p) = GetState(m_data, id, p)

\* the paths with a non-Visible state in a snapshot
SnapNonVisiblePaths(snap, id) ==
    { p \in QueryPaths : SnapGetComponentState(snap, id, p) # CS_VISIBLE }

\* some path at or below q is non-Visible in the snapshot
SubtreeOverridden(snap, id, q) ==
    \E p \in SnapNonVisiblePaths(snap, id) : IsAncestorOrSelf(q, p)

\* the draw a component gets by the decision table of the draw pass
TableCall(id, path, opacity) ==
    [fn |-> "DrawObject", inst |-> id, path |-> path, opacity |-> opacity]

RECURSIVE TableDraw(_, _, _, _, _)
TableDraw(snap, id, d, parentPath, i) ==
    IF i >= Len(Definitions[d]) THEN << >>
    ELSE
      LET path == IF parentPath = << >> THEN IntToString(i)
                  ELSE parentPath \o << "." >> \o IntToString(i)
          state == SnapGetComponentState(snap, id, path)
          nested == Definitions[d][i + 1].type = "instance_reference"
          calls ==
            CASE state \in {CS_HIDDEN, CS_SUPPRESSED} -> << >>
              [] state \notin {CS_HIDDEN, CS_SUPPRESSED} /\ nested
                   /\ SubtreeOverridden(snap, id, path) ->
                     TableDraw(snap, id, Definitions[d][i + 1].def, path, 0)
              [] state \notin {CS_HIDDEN, CS_SUPPRESSED} /\ nested
                   /\ ~SubtreeOverridden(snap, id, path) ->
                     << TableCall(id, path, "default") >>
              [] state = CS_TRANSPARENT /\ ~nested ->
                     << TableCall(id, path, "reduced") >>
              [] state = CS_VISIBLE /\ ~nested ->
                     << TableCall(id, path, "default") >>
      IN  calls \o TableDraw(snap, id, d, parentPath, i + 1)

\* the paths a sequence of calls handed to the renderer
CallPaths(calls) == [k \in DOMAIN calls |-> calls[k].path]

\* the draw pass of a managed instance just ran
DrawPassRan ==
    lastChannel = "draw" /\ lastObject \in Ids /\ SnapIsManaged(m_snapshot, lastObject)

\* C7: the draw pass emits, for a managed instance, exactly the calls of the
\* decision table, the reduced-opacity draw of a Transparent leaf included
C7_DrawDecisionTable ==
    DrawPassRan =>
        emitted = TableDraw(m_snapshot, lastObject, InstanceDefinition[lastObject], << >>, 0)

\* the decision table with the opacity of the calls left aside
DrawTableModuloOpacity ==
    DrawPassRan =>
        CallPaths(emitted)
          = CallPaths(TableDraw(m_snapshot, lastObject, InstanceDefinition[lastObject], << >>, 0))

\* C8: after SC_DRAWOBJECT for an instance reference the default draw is
\* suppressed exactly when the frame's snapshot holds a non-Visible path for
\* the instance, and for an unmanaged instance the filter drew nothing
C8_SuppressIffManaged ==
    (lastChannel = "draw" /\ lastObject \in Ids) =>
        /\ (m_bDrawObject = FALSE) <=> (SnapNonVisiblePaths(m_snapshot, lastObject) # {})
        /\ SnapNonVisiblePaths(m_snapshot, lastObject) = {}  => emitted = << >>

\* the default draw of X is suppressed on the word of the snapshot although
\* the store has made X unmanaged since
C8_Witness ==
    /\ lastChannel = "draw"
    /\ lastObject = "X"
    /\ m_bDrawObject = FALSE
    /\ ~IsManaged(m_data, "X")
    /\ SnapGetComponentState(m_snapshot, "X", P1_0) = CS_HIDDEN

\* the geometry (leaf) components of definition A, by path
LeafPaths == {P0, P1_1, P1_0_0, P1_0_1, P1_0_2}

\* the box or draw of some call covers the component at path p of instance id
Covered(id, p) ==
    \E k \in DOMAIN emitted : emitted[k].inst = id /\ IsAncestorOrSelf(emitted[k].path, p)

\* the path or one of its ancestors has one of the states in the snapshot
ChainHas(snap, id, p, states) ==
    \E q \in QueryPaths :
        IsAncestorOrSelf(q, p) /\ SnapGetComponentState(snap, id, q) \in states

C10_HighlightRecurses ==
    lastChannel = "postdraw" =>
        \A id \in selected : \A p \in LeafPaths :
            ( /\ SnapIsManaged(m_snapshot, id)
              /\ ~ChainHas(m_snapshot, id, p, {CS_HIDDEN, CS_SUPPRESSED}) )
            => Covered(id, p)

\* the prefix set that belongs to a state map: every stored path and every
\* ancestor of one
PrefixesFor(states) ==
    { q \in QueryPaths : \E p \in DOMAIN states : IsAncestorOrSelf(q, p) }

\* a snapshot value in which every instance carries the prefixes of its states
SnapshotCoherent(snap) ==
    \A id \in DOMAIN snap : snap[id].parentPrefixes = PrefixesFor(snap[id].states)

\* C4: with the mutator and the render thread interleaving at every step, the
\* two threads are never inside a store method together, whoever is not the
\* mutator finds m_prefixes in step with m_data, and every snapshot, finished
\* or being copied, carries for each instance the prefixes of the states copied
C4_AtomicUnderLock ==
    /\ ~( pcMut \in {"data", "prefixes", "leave"} /\ pcRen = "copy" )
    /\ lockOwner # "mutator" =>
          /\ DOMAIN m_prefixes = DOMAIN m_data
          /\ \A id \in DOMAIN m_data : m_prefixes[id] = PrefixesFor(m_data[id])
    /\ SnapshotCoherent(m_snapshot)
    /\ pcRen = "copy" => SnapshotCoherent(renSnap.snap)

\* the mutator is between its update of m_data and its update of m_prefixes,
\* X's map already holds "1.0" and its prefix set does not, and the render
\* thread waits at the lock for its snapshot
C4_Witness ==
    /\ pcMut = "prefixes"
    /\ pcRen = "enter"
    /\ lockOwner = "mutator"
    /\ GetState(m_data, "X", P1_0) = CS_HIDDEN
    /\ ~HasHiddenDescendants(m_prefixes, "X", P1_0)

\* C11: after a draw pass every call for a geometry component whose snapshot
\* state is Transparent carries the reduced-opacity signal, which tells it from
\* the call a Visible leaf gets, at the top level ("0") and nested ("1.1")
C11_TransparentLeafReduced ==
    DrawPassRan =>
        \A k \in DOMAIN emitted :
            ( /\ emitted[k].path \in LeafPaths
              /\ SnapGetComponentState(m_snapshot, lastObject, emitted[k].path)
                   = CS_TRANSPARENT )
            => emitted[k].opacity = "reduced"

\* the nested block components of definition A, by path
NestedPaths == {P1, P1_0}

\* the components of the block at path q, by path
Children(q) ==
    { p \in LeafPaths \cup NestedPaths :
        /\ Len(Indices(p)) = Len(Indices(q)) + 1
        /\ IsAncestorOrSelf(q, p) }

\* the draw pass reached the nested component q, q is Transparent and nothing
\* else at or below q carries an override
TransparentAlone(q) ==
    /\ DrawPassRan
    /\ InstanceDefinition[lastObject] = "A"
    /\ SnapGetComponentState(m_snapshot, lastObject, q) = CS_TRANSPARENT
    /\ { p \in SnapNonVisiblePaths(m_snapshot, lastObject) : IsAncestorOrSelf(q, p) } = {q}
    /\ \A a \in NestedPaths :
          IsAncestorOrSelf(a, q)
            => SnapGetComponentState(m_snapshot, lastObject, a) \notin {CS_HIDDEN, CS_SUPPRESSED}

DeepOverrides(snap) ==
    { j \in DeepLevels : SnapGetComponentState(snap, "Z", DeepPath(j)) # CS_VISIBLE }

\* the traversal of Z by the draw pass or the bounding-box pass just ran
DeepPassRan ==
    /\ SnapIsManaged(m_snapshot, "Z")
    /\ \/ lastChannel = "bbox"
       \/ lastChannel = "draw" /\ lastObject = "Z"

\* C13: over the definition R that contains itself, the draw and the
\* bounding-box traversal return; no call comes from a recursion level of depth
\* MAX_NESTING_DEPTH or more (a call of level d hands over a path of d + 2
\* indices); and the geometry beside every nested instance the traversal
\* entered or was cut at is still handed over
C13_DepthBounded ==
    DeepPassRan =>
        /\ \A k \in DOMAIN emitted :
              emitted[k].inst = "Z" => Len(Indices(emitted[k].path)) <= MAX_NESTING_DEPTH + 1
        /\ \A j \in DeepOverrides(m_snapshot) : \A k \in 0 .. MAX_NESTING_DEPTH :
              k < j => \E n \in DOMAIN emitted :
                          emitted[n].inst = "Z" /\ emitted[n].path = DeepPath(k)

\* the override of Z lies at level 34: the draw pass ran levels 0 to 31, was
\* cut at the instance of level 33 and still drew the geometry beside it
C13_Witness ==
    /\ lastChannel = "draw"
    /\ lastObject = "Z"
    /\ SnapGetComponentState(m_snapshot, "Z", DeepPath(34)) = CS_HIDDEN
    /\ SnapHasHiddenDescendants(m_snapshot, "Z", Zeros(33))
    /\ Len(emitted) = MAX_NESTING_DEPTH + 1
    /\ emitted[1].path = DeepPath(MAX_NESTING_DEPTH)

\* every answer the store gives
StoreAnswers(store) ==
    [managedIds |-> GetManagedInstanceIds(store.data),
     managed |-> [id \in Ids |-> IsManaged(store.data, id)],
     count |-> [id \in Ids |-> GetHiddenCount(store.data, id)],
     state |-> [id \in Ids |-> [p \in QueryPaths |-> GetState(store.data, id, p)]],
     hidden |-> [id \in Ids |->
                  [p \in QueryPaths |-> HasHiddenDescendants(store.prefixes, id, p)]]]

\* C14: the text PersistVisibilityState just wrote, deserialized into an empty
\* store, gives a store with the managed instances, the state of every path
\* and the HasHiddenDescendants answers of the store that was serialized
C14_RoundTrip ==
    lastCall.op = "PersistVisibilityState" =>
        StoreAnswers(DeserializeVisibilityState(docText, ClearAll)) = StoreAnswers(Store)

\* a store with two managed instances and three different states was saved
C14_Witness ==
    /\ lastCall.op = "PersistVisibilityState"
    /\ GetState(m_data, "X", P0) = CS_SUPPRESSED
    /\ GetState(m_data, "X", P1_0_2) = CS_TRANSPARENT
    /\ GetState(m_data, "Y", P0) = CS_HIDDEN
    /\ Len(docText) > 0

\* the store after the well-formed fields of the well-formed lines of a text
\* in parts were applied in order, and nothing else
RECURSIVE ApplyFields(_, _, _)
ApplyFields(fields, id, store) ==
    IF fields = << >> THEN store
    ELSE LET f == Head(fields)
             good == f.kind = "field" /\ f.ord \in ComponentStates
         IN  ApplyFields(Tail(fields), id,
                         IF good THEN SetState(store, id, f.path, f.ord) ELSE store)

RECURSIVE ApplyLines(_, _)
ApplyLines(lines, store) ==
    IF lines = << >> THEN store
    ELSE LET l == Head(lines)
             good == l.kind = "line" /\ \E id \in Ids : UuidToString(id) = l.uuid
             id == CHOOSE id \in Ids : UuidToString(id) = l.uuid
         IN  ApplyLines(Tail(lines),
                        IF good THEN ApplyFields(l.fields, id, store) ELSE store)

\* C15: deserializing a text with a line without '|', a line whose id does not
\* parse, a field without ':' or a field whose ordinal is outside [0,3] changes
\* the store exactly as its other lines and fields, applied in order, do
C15_MalformedSkipped ==
    [][ \A t \in MalformedCases :
          lastCall' = [op |-> "DeserializeVisibilityState", data |-> Render(t)]
            => [data |-> m_data', prefixes |-> m_prefixes'] = ApplyLines(t, Store) ]_vars

\* the text with all four malformed units was read: "1.0.2" of X and "0" of Y
\* were set, and the state "1" of X had before is still there although the
\* text held "1:12"
C15_Witness ==
    /\ lastCall = [op |-> "DeserializeVisibilityState", data |-> Render(CaseAll)]
    /\ GetState(m_data, "X", P1_0_2) = CS_TRANSPARENT
    /\ GetState(m_data, "Y", P0) = CS_HIDDEN
    /\ GetState(m_data, "X", P1) = CS_SUPPRESSED
    /\ GetState(m_data, "X", P1_0) = CS_VISIBLE

\* C16: after SetState(id, p, s) GetState(id, p) is s; Visible leaves no entry
\* for p and any other state leaves the entry p -> s; no stored entry is ever
\* Visible, and GetState answers Visible exactly for an absent instance or path
C16_SetThenGet ==
    /\ lastCall.op = "SetState" =>
          /\ GetState(m_data, lastCall.id, lastCall.path) = lastCall.state
          /\ IF lastCall.state = CS_VISIBLE
             THEN lastCall.id \in DOMAIN m_data
                    => lastCall.path \notin DOMAIN m_data[lastCall.id]
             ELSE /\ lastCall.id \in DOMAIN m_data
                  /\ lastCall.path \in DOMAIN m_data[lastCall.id]
                  /\ m_data[lastCall.id][lastCall.path] = lastCall.state
    /\ \A id \in DOMAIN m_data : \A p \in DOMAIN m_data[id] : m_data[id][p] # CS_VISIBLE
    /\ \A id \in Ids : \A p \in QueryPaths :
          GetState(m_data, id, p) = CS_VISIBLE
            <=> (id \notin DOMAIN m_data \/ p \notin DOMAIN m_data[id])

\* "1.0" of X was just set Visible and left X's map, which still holds "0"
C16_Witness ==
    /\ lastCall = [op |-> "SetState", id |-> "X", path |-> P1_0, state |-> CS_VISIBLE]
    /\ "X" \in DOMAIN m_data
    /\ P1_0 \notin DOMAIN m_data["X"]
    /\ GetState(m_data, "X", P0) = CS_TRANSPARENT

\* C17: the SetState call that just completed, made once more, changes no
\* answer of the store
C17_SetStateIdempotent ==
    lastCall.op = "SetState" =>
        StoreAnswers(SetState(Store, lastCall.id, lastCall.path, lastCall.state))
          = StoreAnswers(Store)

\* "1.0.2" of X was just set Visible while X keeps the state of one other path
C17_Witness ==
    /\ lastCall = [op |-> "SetState", id |-> "X", path |-> P1_0_2, state |-> CS_VISIBLE]
    /\ NonVisiblePaths(m_data, "X") = {P1_0}
    /\ HasHiddenDescendants(m_prefixes, "X", P1)

\* C18: SetState(id, p, Visible) on a path with no stored state changes no
\* answer; on the only stored path of id it leaves id unmanaged and
\* HasHiddenDescendants(id, q) false for every q
C18_VisibleOnAbsentOrLast ==
    [][ (lastCall'.op = "SetState" /\ lastCall'.state = CS_VISIBLE) =>
          /\ GetState(m_data, lastCall'.id, lastCall'.path) = CS_VISIBLE
                => StoreAnswers([data |-> m_data', prefixes |-> m_prefixes'])
                     = StoreAnswers(Store)
          /\ NonVisiblePaths(m_data, lastCall'.id) = {lastCall'.path}
                => /\ ~IsManaged(m_data', lastCall'.id)
                   /\ \A q \in QueryPaths :
                         ~HasHiddenDescendants(m_prefixes', lastCall'.id, q) ]_vars

\* the last call set "1.0.2" of X Visible; X is unmanaged and has no prefix
\* left, Y still is managed
C18_Witness ==
    /\ lastCall = [op |-> "SetState", id |-> "X", path |-> P1_0_2, state |-> CS_VISIBLE]
    /\ ~IsManaged(m_data, "X")
    /\ ~HasHiddenDescendants(m_prefixes, "X", P1)
    /\ ~HasHiddenDescendants(m_prefixes, "X", P1_0)
    /\ IsManaged(m_data, "Y")

\* C19: an instance is managed exactly when one of its paths has a state
\* other than Visible; Z, which no SetState call and no text ever names, is
\* unmanaged and every path of it answers Visible
C19_ManagedIffOverride ==
    /\ \A id \in Ids : IsManaged(m_data, id) <=> NonVisiblePaths(m_data, id) # {}
    /\ ~IsManaged(m_data, "Z")
    /\ \A p \in QueryPaths : GetState(m_data, "Z", p) = CS_VISIBLE

\* X is managed by a Transparent path alone, Y has lost its only override
C19_Witness ==
    /\ lastCall = [op |-> "SetState", id |-> "Y", path |-> P0, state |-> CS_VISIBLE]
    /\ ~IsManaged(m_data, "Y")
    /\ IsManaged(m_data, "X")
    /\ NonVisiblePaths(m_data, "X") = {P1_0}
    /\ GetState(m_data, "X", P1_0) = CS_TRANSPARENT

\* C20: ResetInstance(x), called by ResetComponentVisibility or by
\* OnDeleteObject for the instance object x, leaves x unmanaged, every path of
\* x Visible and without hidden descendants, and the state map and the prefix
\* set of every other instance as they were
C20_ResetFrame ==
    [][ (lastCall'.op \in {"ResetInstance", "OnDeleteObject"} /\ lastCall'.id \in Ids) =>
          /\ ~IsManaged(m_data', lastCall'.id)
          /\ \A p \in QueryPaths :
                /\ GetState(m_data', lastCall'.id, p) = CS_VISIBLE
                /\ ~HasHiddenDescendants(m_prefixes', lastCall'.id, p)
          /\ \A y \in Ids \ {lastCall'.id} :
                /\ y \in DOMAIN m_data' <=> y \in DOMAIN m_data
                /\ y \in DOMAIN m_data => m_data'[y] = m_data[y]
                /\ y \in DOMAIN m_prefixes' <=> y \in DOMAIN m_prefixes
                /\ y \in DOMAIN m_prefixes => m_prefixes'[y] = m_prefixes[y] ]_vars

\* the instance object X was deleted: X has no state left, Y keeps its own
C20_Witness ==
    /\ lastCall = [op |-> "OnDeleteObject", id |-> "X"]
    /\ ~IsManaged(m_data, "X")
    /\ "X" \notin DOMAIN m_prefixes
    /\ GetState(m_data, "Y", P0) = CS_HIDDEN
    /\ HasHiddenDescendants(m_prefixes, "Y", P1)

-----------------------------------------------------------------------------
(* The document events and the exported entry points                        *)

\* C21: after ClearAll the store is empty: no instance is managed, every path
\* of every instance is Visible and has no hidden descendants, and a snapshot
\* taken afterwards has no managed instance
C21_ClearAllEmpties ==
    lastCall.op = "ClearAll" =>
        /\ GetManagedInstanceIds(m_data) = {}
        /\ \A id \in Ids :
              /\ ~IsManaged(m_data, id)
              /\ \A p \in QueryPaths \cup {<< >>} :
                    /\ GetState(m_data, id, p) = CS_VISIBLE
                    /\ ~HasHiddenDescendants(m_prefixes, id, p)
        /\ LET snap == TakeSnapshot(m_data, m_prefixes)
           IN  /\ SnapGetManagedInstanceIds(snap) = {}
               /\ \A id \in Ids :
                     /\ ~SnapIsManaged(snap, id)
                     /\ \A p \in QueryPaths :
                           /\ SnapGetComponentState(snap, id, p) = CS_VISIBLE
                           /\ ~SnapHasHiddenDescendants(snap, id, p)

\* ClearAll was called on a store that managed X and Y
C21_Witness ==
    /\ lastCall.op = "ClearAll"
    /\ lastCall.was = {"X", "Y"}
    /\ m_data = EmptyMap
    /\ m_prefixes = EmptyMap

\* the Hidden/Suppressed path set of an instance, read off the state table
HiddenOrSuppressed(data, id) ==
    { p \in QueryPaths : GetState(data, id, p) \in {CS_HIDDEN, CS_SUPPRESSED} }

\* the paths recorded on an instance object; none without user data
Record(ud, id) == IF id \in DOMAIN ud THEN ud[id] ELSE {}

\* C22: the record OnBeginSaveDocument takes with SyncFromVisData holds
\* exactly the instance's Hidden or Suppressed paths; after OnEndOpenDocument
\* ran SyncToVisData for an instance with a record, the instance has exactly
\* the recorded paths, each Hidden, and no other entry, whatever its states
\* were before
C22_PerObjectCodec ==
    /\ lastCall.op = "OnBeginSaveDocument" =>
          \A id \in GetManagedInstanceIds(m_data) :
            /\ Record(userData, id) \subseteq QueryPaths
            /\ Record(userData, id) = HiddenOrSuppressed(m_data, id)
    /\ lastCall.op = "OnEndOpenDocument" =>
          \A id \in Ids :
            Record(userData, id) # {} =>
              /\ IsManaged(m_data, id)
              /\ DOMAIN m_data[id] = Record(userData, id)
              /\ \A p \in QueryPaths :
                    GetState(m_data, id, p) =
                      IF p \in Record(userData, id) THEN CS_HIDDEN ELSE CS_VISIBLE

\* X was recorded with "0" Suppressed, then had "0" Suppressed and "1.0"
\* Transparent when the document was opened: "0" is Hidden, "1.0" Visible
C22_Witness ==
    /\ lastCall.op = "OnEndOpenDocument"
    /\ Record(userData, "X") = {P0}
    /\ GetState(lastCall.before, "X", P0) = CS_SUPPRESSED
    /\ GetState(lastCall.before, "X", P1_0) = CS_TRANSPARENT
    /\ GetState(m_data, "X", P0) = CS_HIDDEN
    /\ GetState(m_data, "X", P1_0) = CS_VISIBLE

\* C23: after a save the record of every instance object holds exactly the
\* instance's Hidden or Suppressed paths, so an instance that is unmanaged
\* when the document is saved has no record
C23_RecordIsSnapshot ==
    lastCall.op = "OnBeginSaveDocument" =>
        \A id \in Ids : Record(userData, id) = HiddenOrSuppressed(m_data, id)

\* the entry points that look at g_initialized before anything else
GuardedEntryPoints ==
    {"SetComponentVisibility", "SetComponentState", "IsComponentVisible",
     "GetComponentState", "GetHiddenComponentCount", "GetManagedInstances",
     "ResetComponentVisibility", "PersistVisibilityState", "LoadVisibilityState"}

\* an entry point that returned while the module was not initialized left the
\* store, the document text and g_initialized alone and returned its neutral value
NeutralReturn ==
    (~g_initialized /\ lastCall'.op \in GuardedEntryPoints) =>
        /\ ~g_initialized'
        /\ UNCHANGED << m_data, m_prefixes, docText, userData >>
        /\ m_data = EmptyMap
        /\ lastCall'.op \in {"SetComponentVisibility", "SetComponentState"}
              => lastCall'.ret = FALSE
        /\ lastCall'.op = "IsComponentVisible" => lastCall'.ret = TRUE
        /\ lastCall'.op = "GetComponentState" => lastCall'.ret = CS_VISIBLE
        /\ lastCall'.op \in {"GetHiddenComponentCount", "GetManagedInstances"}
              => lastCall'.ret = 0

\* C24: before NativeInit and after NativeCleanup every entry point is a no-op
\* that returns a neutral value: false from SetComponentVisibility and
\* SetComponentState, true from IsComponentVisible, Visible from
\* GetComponentState, 0 from GetHiddenComponentCount and GetManagedInstances,
\* and nothing changes
C24_NoOpUninitialized == [][NeutralReturn]_vars

\* after NativeCleanup, with a document text persisted before it,
\* SetComponentState with valid arguments returned false
C24_Witness ==
    /\ ~g_initialized
    /\ docText # << >>
    /\ lastCall = [op |-> "SetComponentState", id |-> "X", path |-> P0,
                   state |-> CS_HIDDEN, ret |-> FALSE]
    /\ m_data = EmptyMap

\* SetComponentState on the initialized module: false and an unchanged store
\* for an invalid argument, true and the state stored for valid ones
ValidatedSetState ==
    (g_initialized /\ lastCall'.op = "SetComponentState") =>
        LET c == lastCall'
            valid == c.id # NULL_ID /\ c.path # NULL_PATH /\ c.state \in ComponentStates
        IN  IF ~valid
            THEN c.ret = FALSE /\ UNCHANGED << m_data, m_prefixes >>
            ELSE /\ c.ret = TRUE
                 /\ GetState(m_data', c.id, c.path) = c.state
                 /\ \A q \in QueryPaths :
                       HasHiddenDescendants(m_prefixes', c.id, q)
                         <=> \E p \in NonVisiblePaths(m_data', c.id) : IsAncestorOrSelf(q, p)
                 /\ \A p \in QueryPaths \ {c.path} :
                       GetState(m_data', c.id, p) = GetState(m_data, c.id, p)

\* C25: SetComponentState with an ordinal outside 0..3, a null instance id or
\* a null path returns false and leaves the store unchanged; with valid
\* arguments it returns true and the state map and the prefix set are updated
C25_SetComponentStateValidates == [][ValidatedSetState]_vars

\* ordinal 4 was refused while "1.0" of X is Hidden
C25_Witness ==
    /\ g_initialized
    /\ lastCall = [op |-> "SetComponentState", id |-> "X", path |-> P1_0,
                   state |-> CS_TRANSPARENT + 1, ret |-> FALSE]
    /\ GetState(m_data, "X", P1_0) = CS_HIDDEN
    /\ HasHiddenDescendants(m_prefixes, "X", P1)

\* C27: the value GetHiddenComponentCount(id) returned is the number of paths
\* for which IsComponentVisible(id, p) answers false
C27_CountMatchesVisible ==
    lastCall.op = "GetHiddenComponentCount" =>
        lastCall.ret =
          Cardinality({ p \in QueryPaths :
                          ~IsComponentVisible(g_initialized, m_data, lastCall.id, p) })

\* the pieces of a text between the occurrences of the character sep
RECURSIVE Split(_, _)
Split(str, sep) ==
    LET pos == Find(str, sep, 0)
    IN  IF pos = NPOS THEN << str >>
        ELSE << Substr(str, 0, pos) >> \o Split(Substr(str, pos + 1, Len(str)), sep)

\* the lines of a text: the pieces a newline ends
TextLines(text) == SubSeq(Split(text, "\n"), 1, Len(Split(text, "\n")) - 1)

\* the instance a line names and the fields that follow the name
LineId(line) == Head(Split(line, "|"))
LineFields(line) == Tail(Split(line, "|"))

\* the field path:ordinal of a non-Visible state
FieldOf(path, state) == path \o << ":" >> \o << << "1", "2", "3" >>[state] >>

\* C26: the text PersistVisibilityState wrote holds exactly one line for each
\* managed instance and none for an unmanaged one, and the line of an instance
\* holds exactly one field path:ordinal for each of its non-Visible paths, the
\* ordinal being 1, 2 or 3
C26_SerializedShape ==
    lastCall.op = "PersistVisibilityState" =>
        LET lines == TextLines(docText)
        IN  /\ Split(docText, "\n")[Len(lines) + 1] = << >>
            /\ Len(lines) = Cardinality(GetManagedInstanceIds(m_data))
            /\ \A id \in Ids :
                  Cardinality({ i \in 1 .. Len(lines) : LineId(lines[i]) = UuidToString(id) })
                    = IF IsManaged(m_data, id) THEN 1 ELSE 0
            /\ \A i \in 1 .. Len(lines) : \A id \in Ids :
                  LineId(lines[i]) = UuidToString(id) =>
                    LET fields == LineFields(lines[i])
                    IN  /\ Len(fields) = Cardinality(NonVisiblePaths(m_data, id))
                        /\ \A p \in NonVisiblePaths(m_data, id) :
                              /\ GetState(m_data, id, p) \in 1 .. 3
                              /\ Cardinality({ j \in 1 .. Len(fields) :
                                    fields[j] = FieldOf(p, GetState(m_data, id, p)) }) = 1

\* X was serialized with "0" Suppressed and "1.0.2" Transparent while Y, not
\* managed, got no line
C26_Witness ==
    /\ lastCall.op = "PersistVisibilityState"
    /\ GetState(m_data, "X", P0) = CS_SUPPRESSED
    /\ GetState(m_data, "X", P1_0_2) = CS_TRANSPARENT
    /\ ~IsManaged(m_data, "Y")
    /\ Len(TextLines(docText)) = 1
    /\ Len(LineFields(TextLines(docText)[1])) = 2

\* what a store and a snapshot hold for one instance
InstanceView(store, id) ==
    [states |-> IF id \in DOMAIN store.data THEN store.data[id] ELSE EmptyMap,
     parentPrefixes |-> IF id \in DOMAIN store.prefixes THEN store.prefixes[id] ELSE {}]

SnapView(snap, id) ==
    IF id \in DOMAIN snap THEN snap[id] ELSE [states |-> EmptyMap, parentPrefixes |-> {}]

\* C28: a snapshot the render thread completes while a hydration of an
\* instance is under way shows the instance as it was before the hydration
\* or as it is after it
C28_HydrationAtomic ==
    (hydration.op # "none" /\ pcRen = "copy" /\ (DOMAIN m_data) \subseteq renSnap.done) =>
        SnapView(renSnap.snap, hydration.id)
          \in { InstanceView(hydration.pre, hydration.id),
                InstanceView(hydration.post, hydration.id) }

\* the calls of the pass that draw the component at path p of instance id,
\* by itself or inside the whole subtree of an ancestor
DrawsOf(id, p) ==
    { k \in DOMAIN emitted : emitted[k].inst = id /\ IsAncestorOrSelf(emitted[k].path, p) }

SetStateFrame ==
    lastCall'.op = "SetState" =>
        LET c == lastCall'
            after == [data |-> m_data', prefixes |-> m_prefixes']
        IN  /\ \A id \in Ids : \A p \in QueryPaths :
                  << id, p >> # << c.id, c.path >>
                    => GetState(m_data', id, p) = GetState(m_data, id, p)
            /\ \A id \in Ids \ {c.id} :
                  /\ InstanceView(after, id) = InstanceView(Store, id)
                  /\ (id \in DOMAIN m_data') = (id \in DOMAIN m_data)
                  /\ (id \in DOMAIN m_prefixes') = (id \in DOMAIN m_prefixes)
                  /\ IsManaged(m_data', id) = IsManaged(m_data, id)

\* C30: SetState(id, p, s) changes nothing but the entry of (id, p) and the
\* prefix set of id: the state of every other pair, and the state map, the
\* prefix set and IsManaged of every other instance, are as before
C30_SetStateFrame == [][SetStateFrame]_vars

\* "0" of X was set Visible while "1.0" of X is Suppressed and "0" of Y Hidden
C30_Witness ==
    /\ lastCall = [op |-> "SetState", id |-> "X", path |-> P0, state |-> CS_VISIBLE]
    /\ GetState(m_data, "X", P1_0) = CS_SUPPRESSED
    /\ HasHiddenDescendants(m_prefixes, "X", P1)
    /\ ~HasHiddenDescendants(m_prefixes, "X", P0)
    /\ GetState(m_data, "Y", P0) = CS_HIDDEN
    /\ HasHiddenDescendants(m_prefixes, "Y", P0)

-----------------------------------------------------------------------------
(* Structure of the store, merging loads and the module's lifecycle        *)

\* C31: after any sequence of store operations no instance key of m_data maps
\* to an empty state map, m_prefixes has exactly the instance keys of m_data,
\* and every instance a snapshot holds carries a non-empty prefix set
C31_StoreStructure ==
    /\ \A id \in DOMAIN m_data : DOMAIN m_data[id] # {}
    /\ DOMAIN m_prefixes = DOMAIN m_data
    /\ \A id \in DOMAIN m_prefixes : m_prefixes[id] # {}
    /\ LET snap == TakeSnapshot(m_data, m_prefixes)
       IN  /\ DOMAIN snap = DOMAIN m_data
           /\ \A id \in DOMAIN snap :
                 /\ snap[id].states # EmptyMap
                 /\ snap[id].parentPrefixes # {}

\* X just lost its last override and is in neither table, Y is in both
C31_Witness ==
    /\ lastCall = [op |-> "SetState", id |-> "X", path |-> P1_0_2, state |-> CS_VISIBLE]
    /\ DOMAIN m_data = {"Y"}
    /\ DOMAIN m_prefixes = {"Y"}
    /\ TakeSnapshot(m_data, m_prefixes)["Y"].parentPrefixes = {P1, P1_0}

\* the well-formed fields of a text: field j of line i, in a line that names
\* an instance, holding a path, one ':' and an ordinal 0..3 in decimal
WellFormedFields(text) ==
    LET lines == Split(text, "\n")
    IN  { n \in UNION { { [i |-> i, j |-> j, id |-> id,
                           path |-> Head(Split(LineFields(lines[i])[j], ":")),
                           ord |-> ord] :
                           j \in 1 .. Len(LineFields(lines[i])), id \in Ids,
                           ord \in ComponentStates } :
                       i \in 1 .. Len(lines) } :
            /\ LineId(lines[n.i]) = UuidToString(n.id)
            /\ Split(LineFields(lines[n.i])[n.j], ":") = << n.path, << DigitChar(n.ord) >> >> }

\* the last well-formed field of the text that names the pair (id, p)
LastField(text, id, p) ==
    LET named == { n \in WellFormedFields(text) : n.id = id /\ n.path = p }
    IN  CHOOSE n \in named :
          \A m \in named : m.i < n.i \/ (m.i = n.i /\ m.j <= n.j)

\* a deserialization changes the pairs its well-formed fields name, to the
\* ordinal of the last such field, and no other pair
DeserializeMerges ==
    lastCall'.op = "DeserializeVisibilityState" =>
        LET text == lastCall'.data
        IN  \A id \in Ids : \A p \in QueryPaths :
              GetState(m_data', id, p) =
                IF \E n \in WellFormedFields(text) : n.id = id /\ n.path = p
                THEN LastField(text, id, p).ord
                ELSE GetState(m_data, id, p)

\* C32: DeserializeVisibilityState into a non-empty store is a merge: it
\* changes only the (instance, path) pairs named by well-formed fields of the
\* text, a field with ordinal 0 removing the entry, and leaves every other
\* entry as it was
C32_DeserializeMerges == [][DeserializeMerges]_vars

\* C33: on the initialized module SetComponentVisibility(id, p, false) leaves
\* p Hidden and IsComponentVisible(id, p) false, SetComponentVisibility(id, p,
\* true) leaves p Visible and IsComponentVisible(id, p) true whatever the state
\* was, and IsComponentVisible is false exactly for Hidden and Suppressed
C33_VisibilityToggle ==
    /\ ( /\ g_initialized
         /\ lastCall.op = "SetComponentVisibility"
         /\ lastCall.id # NULL_ID
         /\ lastCall.path # NULL_PATH ) =>
          /\ lastCall.ret = TRUE
          /\ IsComponentVisible(g_initialized, m_data, lastCall.id, lastCall.path)
                = lastCall.visible
          /\ GetComponentState(g_initialized, m_data, lastCall.id, lastCall.path)
                = IF lastCall.visible THEN CS_VISIBLE ELSE CS_HIDDEN
    /\ g_initialized =>
          \A id \in Ids : \A p \in QueryPaths :
            ~IsComponentVisible(g_initialized, m_data, id, p)
              <=> GetComponentState(g_initialized, m_data, id, p) \in {CS_HIDDEN, CS_SUPPRESSED}

\* "0" of X was Suppressed and was shown, while "1.0" of X is Transparent
C33_Witness ==
    /\ g_initialized
    /\ lastCall = [op |-> "SetComponentVisibility", id |-> "X", path |-> P0,
                   visible |-> TRUE, ret |-> TRUE, was |-> CS_SUPPRESSED]
    /\ GetState(m_data, "X", P0) = CS_VISIBLE
    /\ GetState(m_data, "X", P1_0) = CS_TRANSPARENT
    /\ IsComponentVisible(g_initialized, m_data, "X", P1_0)

\* the steps of NativeInit and NativeCleanup
LifecycleStep ==
    /\ lastCall'.op = "NativeInit" =>
          /\ lastCall'.ret = TRUE
          /\ g_initialized'
          /\ IF g_initialized
             THEN UNCHANGED << m_data, m_prefixes >>
             ELSE /\ m_data' = EmptyMap
                  /\ m_prefixes' = EmptyMap
                  /\ \A id \in Ids : ~IsManaged(m_data', id)
          /\ UNCHANGED << docText, userData >>
    /\ lastCall'.op = "NativeCleanup" =>
          /\ ~g_initialized'
          /\ ~g_initialized => UNCHANGED << m_data, m_prefixes, docText, userData >>

\* C34: NativeInit on an initialized module returns true and leaves the store
\* as it is; NativeInit after NativeCleanup gives an empty store, no instance
\* managed; NativeCleanup on a module that is not initialized changes nothing
C34_Lifecycle == [][LifecycleStep]_vars

\* NativeInit ran on the initialized module and X still has "0" Hidden
C34_Witness ==
    /\ g_initialized
    /\ lastCall = [op |-> "NativeInit", ret |-> TRUE, was |-> TRUE]
    /\ GetState(m_data, "X", P0) = CS_HIDDEN
    /\ IsManaged(m_data, "X")

====
